---- MODULE Spec2Model ----
(***************************************************************************)
(* Model of the inertia-engine orchestrator (internal/engine/engine.go and *)
(* the identical unexported pipeline of main.go) and of run-parallel.sh.   *)
(*                                                                         *)
(* Specifications:                                                         *)
(*   SpecParse  - ParseDecisionResponse applied to bounded response texts  *)
(*   SpecFilter - FilterLeafNodes applied to bounded task lists            *)
(*   SpecPar    - ProcessTasksParallel (dispatch loop, workers, closer,    *)
(*                collector) on bounded task lists and limits              *)
(*   SpecExec   - ExecuteDecisionsParallel / ExecuteDecision on one        *)
(*                Decision                                                 *)
(*   SpecExecPar - ExecuteDecisionsParallel on several Decisions           *)
(*   SpecCtx    - ContextualizeTask on bounded texts, gazetteers and times *)
(*   SpecShell  - run-parallel.sh: leaf list, spawn loop, wait -n, summary *)
(*   Spec       - main(): load context, fetch, filter, phase 1, phase 2    *)
(***************************************************************************)
EXTENDS Integers, Sequences, FiniteSets, TLC

VARIABLES
    pc,              \* position of the main goroutine
    dryRun,          \* --dry-run flag
    maxConcurrency,  \* --concurrency flag / maxConcurrency parameter
    ctxStatus,       \* outcome of LoadContext: "none", "ok", "fail"
    listStatus,      \* outcome of FetchAllTasks: "none", "ok", "fail", "baddecode"
    listCalls,       \* number of `td task list` invocations issued
    tasks,           \* tasks decoded by FetchAllTasks
    leafTasks,       \* the tasks parameter of ProcessTasksParallel
    nextIdx,         \* number of tasks the dispatch loop has spawned
    sem,             \* number of tokens in the sem channel
    wg,              \* WaitGroup counter of ProcessTasksParallel
    results,         \* buffer of the results channel
    closed,          \* whether results has been closed
    closer,          \* the wg.Wait/close goroutine: "none", "waiting", "done"
    workers,         \* per spawned task: goroutine position, outcome, decision
    decisions,       \* the decisions slice
    execNext,        \* number of decisions ExecuteDecisionsParallel has spawned
    execWg,          \* WaitGroup counter of ExecuteDecisionsParallel
    execW,           \* per decision: commands issued so far and completion
    response,        \* input text of ParseDecisionResponse (SpecParse)
    parsed,          \* its result (SpecParse)
    fTasks,          \* input list of FilterLeafNodes (SpecFilter)
    fLeaves,         \* its result, once computed (SpecFilter)
    tctx,            \* ContextualizeTask: its inputs and its result (SpecCtx)
    shell,           \* run-parallel.sh: script position, PIDS, agents (SpecShell)
    mock,            \* the MockRunner of the tests, when installed (SpecMock)
    twin             \* the engine package and main.go run side by side (SpecTwin)

vars == <<pc, dryRun, maxConcurrency, ctxStatus, listStatus, listCalls, tasks,
          leafTasks, nextIdx, sem, wg, results, closed, closer, workers,
          decisions, execNext, execWg, execW, response, parsed, fTasks, fLeaves,
          tctx, shell, mock, twin>>

pipelineVars == <<pc, dryRun, maxConcurrency, ctxStatus, listStatus, listCalls,
                  tasks, leafTasks, nextIdx, sem, wg, results, closed, closer,
                  workers, decisions, execNext, execWg, execW>>

parseVars == <<response, parsed>>

filterVars == <<fTasks, fLeaves>>

(***************************************************************************)
(* Bounds of the model.                                                    *)
(***************************************************************************)
MaxRespLen == 3
MaxProse == 2
MaxFields == 2
MaxFilterTasks == 3
MaxTasks == 2
MaxK == 2
MaxSubtasks == 2
MaxDecisions == 2
MaxContentLen == 2
MaxConcepts == 2
MaxAgeHours == 49
MaxShellTasks == 5
MaxParallel == 2

(***************************************************************************)
(* Go pointers to int and to string: nil or a value.                      *)
(***************************************************************************)
NilInt == [nil |-> TRUE, v |-> 0]
PtrInt(n) == [nil |-> FALSE, v |-> n]
NilStr == [nil |-> TRUE, v |-> ""]
PtrStr(s) == [nil |-> FALSE, v |-> s]

TaskIDs == {"a", "b"}

(***************************************************************************)
(* Decision struct.                                                        *)
(***************************************************************************)
Decision(taskID, action, priority, newContent, subtasks, reasoning, score) ==
    [TaskID |-> taskID, Action |-> action, Priority |-> priority,
     NewContent |-> newContent, Subtasks |-> subtasks,
     Reasoning |-> reasoning, InertiaScore |-> score]

ActionTags == {"skip", "decompose", "ice-box", "reprioritize", "recontextualize"}

(***************************************************************************)
(* Response texts.  A text is a sequence of tokens: the two brace          *)
(* characters, a prose character, and JSON members `"key": value` (the     *)
(* separating commas and whitespace are not represented).  A member value  *)
(* is a string, an integer number, null or an array of strings.            *)
(***************************************************************************)
Tok(kind, key, t, s, n, a) == [kind |-> kind, key |-> key, t |-> t, s |-> s, n |-> n, a |-> a]
LBrace == Tok("{", "", "", "", 0, <<>>)
RBrace == Tok("}", "", "", "", 0, <<>>)
Prose == Tok("prose", "", "", "", 0, <<>>)
MStr(key, s) == Tok("member", key, "str", s, 0, <<>>)
MNum(key, n) == Tok("member", key, "num", "", n, <<>>)
MNull(key) == Tok("member", key, "null", "", 0, <<>>)
MArr(key, a) == Tok("member", key, "arr", "", 0, a)

Members ==
    { MStr("action", "skip"), MStr("action", "reprioritize"),
      MStr("action", "decompose"), MStr("action", "delete"),
      MNum("action", 5),
      MNum("priority", 2), MNull("priority"),
      MStr("new_content", "c"),
      MArr("subtasks", <<"s1", "s2">>),
      MStr("reasoning", "r"),
      MNum("inertia_score", 7),
      MStr("id", "b") }

Alphabet == {LBrace, RBrace, Prose} \cup Members

SeqsUpTo(S, n) == UNION { [1..k -> S] : k \in 0..n }

\* mutant of Index: takes the payload to start at the beginning of the text
Index_mutTextStart(s, c) ==
    IF \E i \in 1..Len(s) : s[i] = c THEN 0 ELSE -1

\* strings.Index: 0-based position of the first occurrence, -1 when absent
Index(s, c) ==
    IF \E i \in 1..Len(s) : s[i] = c
    THEN (CHOOSE i \in 1..Len(s) : s[i] = c /\ \A j \in 1..(i-1) : s[j] # c) - 1
    ELSE -1

\* strings.LastIndex: 0-based position of the last occurrence, -1 when absent
LastIndex(s, c) ==
    IF \E i \in 1..Len(s) : s[i] = c
    THEN (CHOOSE i \in 1..Len(s) : s[i] = c /\ \A j \in (i+1)..Len(s) : s[j] # c) - 1
    ELSE -1

(***************************************************************************)
(* json.Unmarshal into the anonymous result struct of ParseDecisionResponse*)
(***************************************************************************)
ZeroResult ==
    [Action |-> "", Priority |-> NilInt, NewContent |-> NilStr,
     Subtasks |-> <<>>, Reasoning |-> "", InertiaScore |-> 0]

\* the text is one JSON object: `{`, members, `}`
ValidJSON(js) ==
    /\ Len(js) >= 2
    /\ js[1] = LBrace
    /\ js[Len(js)] = RBrace
    /\ \A i \in 2..(Len(js) - 1) : js[i].kind = "member"

\* the member's value cannot be stored in the struct field its key names
TypeMismatch(m) ==
    \/ m.key \in {"action", "reasoning"} /\ m.t \notin {"str", "null"}
    \/ m.key = "new_content" /\ m.t \notin {"str", "null"}
    \/ m.key \in {"priority", "inertia_score"} /\ m.t \notin {"num", "null"}
    \/ m.key = "subtasks" /\ m.t \notin {"arr", "null"}

\* store one member: unknown keys are ignored, null leaves the field as it is
SetField(r, m) ==
    IF m.t = "null" THEN
        (IF m.key = "priority" THEN [r EXCEPT !.Priority = NilInt]
         ELSE IF m.key = "new_content" THEN [r EXCEPT !.NewContent = NilStr]
         ELSE IF m.key = "subtasks" THEN [r EXCEPT !.Subtasks = <<>>]
         ELSE r)
    ELSE IF m.key = "action" THEN [r EXCEPT !.Action = m.s]
    ELSE IF m.key = "priority" THEN [r EXCEPT !.Priority = PtrInt(m.n)]
    ELSE IF m.key = "new_content" THEN [r EXCEPT !.NewContent = PtrStr(m.s)]
    ELSE IF m.key = "subtasks" THEN [r EXCEPT !.Subtasks = m.a]
    ELSE IF m.key = "reasoning" THEN [r EXCEPT !.Reasoning = m.s]
    ELSE IF m.key = "inertia_score" THEN [r EXCEPT !.InertiaScore = m.n]
    ELSE r

RECURSIVE DecodeMembers(_, _, _)
DecodeMembers(js, i, r) ==
    IF i >= Len(js) THEN r
    ELSE DecodeMembers(js, i + 1, SetField(r, js[i]))

Unmarshal(js) ==
    IF ~ValidJSON(js) THEN [err |-> TRUE, val |-> ZeroResult]
    ELSE IF \E i \in 2..(Len(js) - 1) : TypeMismatch(js[i])
         THEN [err |-> TRUE, val |-> ZeroResult]
    ELSE [err |-> FALSE, val |-> DecodeMembers(js, 2, ZeroResult)]

(***************************************************************************)
(* ParseDecisionResponse.  The result is either a Decision or a run-time   *)
(* panic (slice bounds out of range in response[start : end+1]).           *)
(***************************************************************************)
Returned(d) == [panic |-> FALSE, decision |-> d]
Panicked == [panic |-> TRUE, decision |-> Decision("", "", NilInt, NilStr, <<>>, "", 0)]

SkipDecision(taskID, reasoning) ==
    Decision(taskID, "skip", NilInt, NilStr, <<>>, reasoning, 0)

\* mutant of ParseDecisionResponse: an `id` member of the response replaces
\* the identifier of the task the response was requested for
ParseDecisionResponse_mutIdFromResponse(resp, taskID) ==
    LET start == Index(resp, LBrace)
        end == LastIndex(resp, RBrace)
    IN  IF start = -1 \/ end = -1
        THEN Returned(SkipDecision(taskID, "Failed to parse LLM response"))
        ELSE IF start > end + 1
        THEN Panicked
        ELSE LET jsonStr == SubSeq(resp, start + 1, end + 1)
                 u == Unmarshal(jsonStr)
                 ids == { k \in 1..Len(jsonStr) : jsonStr[k].key = "id" /\ jsonStr[k].t = "str" }
                 id == IF ids = {} THEN taskID ELSE jsonStr[CHOOSE k \in ids : TRUE].s
             IN  IF u.err
                 THEN Returned(SkipDecision(taskID, "JSON parse error: " \o "invalid JSON"))
                 ELSE Returned(Decision(id, u.val.Action, u.val.Priority,
                                        u.val.NewContent, u.val.Subtasks,
                                        u.val.Reasoning, u.val.InertiaScore))

ParseDecisionResponse(resp, taskID) ==
    LET start == Index(resp, LBrace)
        end == LastIndex(resp, RBrace)
    IN  IF start = -1 \/ end = -1
        THEN Returned(SkipDecision(taskID, "Failed to parse LLM response"))
        ELSE IF start > end + 1
        THEN Panicked
        ELSE LET jsonStr == SubSeq(resp, start + 1, end + 1)
                 u == Unmarshal(jsonStr)
             IN  IF u.err
                 THEN Returned(SkipDecision(taskID, "JSON parse error: " \o "invalid JSON"))
                 ELSE Returned(Decision(taskID, u.val.Action, u.val.Priority,
                                        u.val.NewContent, u.val.Subtasks,
                                        u.val.Reasoning, u.val.InertiaScore))

(***************************************************************************)
(* ContextualizeTask.  A string is a sequence of characters; the letters   *)
(* j and w occur in both cases.                                            *)
(***************************************************************************)
CtxChars == {"j", "J", "w", " "}

\* strings.ToLower
ToLower(s) ==
    [k \in 1..Len(s) |-> CASE s[k] = "J" -> "j" [] s[k] = "W" -> "w" [] OTHER -> s[k]]

\* strings.Contains: substr occurs in s; the empty substr occurs in every s
Contains(s, substr) ==
    \E i \in 0..Len(s) :
        /\ i + Len(substr) <= Len(s)
        /\ SubSeq(s, i + 1, i + Len(substr)) = substr

\* mutant of SplitSpace: the name is not split
SplitSpace_mutWhole(s) == <<s>>

\* strings.Split(s, " "): the pieces between the spaces, empty pieces kept;
\* a string without a space is its only piece
RECURSIVE SplitSpace(_)
SplitSpace(s) ==
    IF \A k \in 1..Len(s) : s[k] # " " THEN <<s>>
    ELSE LET i == CHOOSE k \in 1..Len(s) :
                      s[k] = " " /\ \A j \in 1..(k - 1) : s[j] # " "
         IN  <<SubSeq(s, 1, i - 1)>> \o SplitSpace(SubSeq(s, i + 1, Len(s)))

\* Entity.SpanYears, a json.RawMessage: absent, a number (in tenths of a
\* year), a string such as "unknown", or null
AbsentSpan == [kind |-> "absent", n |-> 0]
NumSpan(n) == [kind |-> "num", n |-> n]
StrSpan == [kind |-> "str", n |-> 0]
NullSpan == [kind |-> "null", n |-> 0]

Entity(name, spanYears) ==
    [Name |-> name, Context |-> <<"c">>, SpanYears |-> spanYears]

\* Entity.GetSpanYears: 0 for an absent value; the number when the value
\* decodes into a float64 (null decodes and leaves 0); otherwise 0
GetSpanYears(e) ==
    IF e.SpanYears.kind = "absent" THEN 0
    ELSE IF e.SpanYears.kind \in {"num", "null"} THEN e.SpanYears.n
    ELSE 0

\* the fields of Task that ContextualizeTask and BuildDecisionPrompt read;
\* AddedAt in hours
TaskFields(content, description, priority, addedAt) ==
    [Content |-> content, Description |-> description, Priority |-> priority,
     AddedAt |-> addedAt]

\* State: four free-text fields
State(energy, mood, environment, workVolatility) ==
    [Energy |-> energy, Mood |-> mood, Environment |-> environment,
     WorkVolatility |-> workVolatility]

InertiaContext(people, projects, concepts) ==
    [Gazetteer |-> [People |-> people, Projects |-> projects, Concepts |-> concepts],
     State |-> State(<<"h">>, <<"i">>, <<"o">>, <<"v">>)]

\* the loops over Gazetteer.People and Gazetteer.Projects
RECURSIVE MatchNames(_, _, _)
MatchNames(taskText, entities, i) ==
    IF i > Len(entities) THEN <<>>
    ELSE (IF Contains(taskText, ToLower(entities[i].Name)) THEN <<entities[i]>> ELSE <<>>)
         \o MatchNames(taskText, entities, i + 1)

\* the inner loop over keywords, left at the first match
RECURSIVE AnyKeyword(_, _, _)
AnyKeyword(taskText, keywords, k) ==
    IF k > Len(keywords) THEN FALSE
    ELSE IF Contains(taskText, keywords[k]) THEN TRUE
    ELSE AnyKeyword(taskText, keywords, k + 1)

\* the loop over Gazetteer.Concepts
RECURSIVE MatchKeywords(_, _, _)
MatchKeywords(taskText, concepts, i) ==
    IF i > Len(concepts) THEN <<>>
    ELSE (IF AnyKeyword(taskText, SplitSpace(ToLower(concepts[i].Name)), 1)
          THEN <<concepts[i]>> ELSE <<>>)
         \o MatchKeywords(taskText, concepts, i + 1)

\* mutant of MaxSpan: the span of the first related concept is taken
MaxSpan_mutFirst(relatedConcepts, i, maxSpan) ==
    IF relatedConcepts = <<>> THEN 0 ELSE GetSpanYears(relatedConcepts[1])

\* var maxSpan float64; for each related concept: if years > maxSpan
RECURSIVE MaxSpan(_, _, _)
MaxSpan(relatedConcepts, i, maxSpan) ==
    IF i > Len(relatedConcepts) THEN maxSpan
    ELSE LET years == GetSpanYears(relatedConcepts[i])
         IN  MaxSpan(relatedConcepts, i + 1, IF years > maxSpan THEN years ELSE maxSpan)

HoursPerDay == 24

\* mutant of IntOfQuotient: the quotient is rounded down
IntOfQuotient_mutFloor(hours, d) == hours \div d

\* int(hours / d): the conversion of a float64 to int discards the fraction,
\* rounding toward zero
IntOfQuotient(hours, d) ==
    IF hours >= 0 THEN hours \div d ELSE 0 - ((0 - hours) \div d)

TaskContext(task, people, projects, concepts, state, ageDays, weight) ==
    [Task |-> task, RelatedPeople |-> people, RelatedProjects |-> projects,
     RelatedConcepts |-> concepts, State |-> state, AgeDays |-> ageDays,
     HistoricalWeight |-> weight]

ContextualizeTask(task, context, now) ==
    LET taskText == ToLower(task.Content \o <<" ">> \o task.Description)
        relatedConcepts == MatchKeywords(taskText, context.Gazetteer.Concepts, 1)
    IN  TaskContext(task,
                    MatchNames(taskText, context.Gazetteer.People, 1),
                    MatchNames(taskText, context.Gazetteer.Projects, 1),
                    relatedConcepts,
                    context.State,
                    IntOfQuotient(now - task.AddedAt, HoursPerDay),
                    MaxSpan(relatedConcepts, 1, 0))

NoTaskContext ==
    TaskContext(TaskFields(<<>>, <<>>, 0, 0), <<>>, <<>>, <<>>,
                State(<<>>, <<>>, <<>>, <<>>), 0, 0)

IdleContextualize ==
    [st |-> "idle", task |-> TaskFields(<<>>, <<>>, 0, 0),
     context |-> InertiaContext(<<>>, <<>>, <<>>), now |-> 0, out |-> NoTaskContext,
     prompt |-> <<>>]

(***************************************************************************)
(* The MockRunner of the tests: its configured result for every command,   *)
(* the captured stdin, the invocation log, and what each worker has read   *)
(* of the log before it writes it back.  NoMock: the real runner is used.  *)
(***************************************************************************)
NoMock ==
    [installed |-> FALSE, outcome |-> [err |-> TRUE, out |-> <<>>],
     StdinSent |-> "", CalledCommands |-> <<>>, local |-> <<>>]

(***************************************************************************)
(* run-parallel.sh: the state of the script before it starts.              *)
(***************************************************************************)
IdleShell ==
    [pc |-> "idle", maxParallel |-> 0, fetched |-> <<>>, leafIds |-> <<>>,
     spawned |-> 0, pids |-> {}, agents |-> <<>>, summary |-> FALSE]

(***************************************************************************)
(* The two copies of the pipeline, before either has run.  A side records  *)
(* what one copy has produced: its leaf list, what it sent to the          *)
(* reasoning engine, its Decisions and its mutation commands.              *)
(***************************************************************************)
NoSide ==
    [leaves |-> <<>>, stdin |-> <<>>, invocations |-> <<>>, decisions |-> <<>>,
     panic |-> FALSE, commands |-> <<>>]

IdleTwin ==
    [st |-> "idle", tasks |-> <<>>, context |-> InertiaContext(<<>>, <<>>, <<>>),
     now |-> 0, limit |-> 0, processed |-> {}, engine |-> NoSide, main |-> NoSide]

(***************************************************************************)
(* SpecParse: ParseDecisionResponse on every short text and on every       *)
(* decision object wrapped in prose.                                       *)
(***************************************************************************)
ShortTexts == SeqsUpTo(Alphabet, MaxRespLen)

WrappedTexts ==
    { pre \o <<LBrace>> \o ms \o <<RBrace>> \o post :
        pre \in SeqsUpTo({Prose}, MaxProse),
        ms \in SeqsUpTo(Members, MaxFields),
        post \in SeqsUpTo({Prose}, MaxProse) }

NotFiltered == [done |-> FALSE, out |-> <<>>]

NotParsed == [done |-> FALSE, taskID |-> "", r |-> Panicked]

IdlePipeline ==
    /\ pc = "idle"
    /\ dryRun = FALSE
    /\ maxConcurrency = 0
    /\ ctxStatus = "none"
    /\ listStatus = "none"
    /\ listCalls = 0
    /\ tasks = <<>>
    /\ leafTasks = <<>>
    /\ nextIdx = 0
    /\ sem = 0
    /\ wg = 0
    /\ results = <<>>
    /\ closed = FALSE
    /\ closer = "none"
    /\ workers = <<>>
    /\ decisions = <<>>
    /\ execNext = 0
    /\ execWg = 0
    /\ execW = <<>>

IdleParse ==
    /\ response = <<>>
    /\ parsed = NotParsed

IdleFilter ==
    /\ fTasks = <<>>
    /\ fLeaves = NotFiltered

InitParse ==
    /\ response \in ShortTexts \cup WrappedTexts
    /\ parsed = NotParsed
    /\ IdlePipeline
    /\ IdleFilter
    /\ tctx = IdleContextualize
    /\ shell = IdleShell
    /\ mock = NoMock
    /\ twin = IdleTwin

Parse ==
    /\ ~parsed.done
    /\ \E tid \in TaskIDs :
         parsed' = [done |-> TRUE, taskID |-> tid, r |-> ParseDecisionResponse(response, tid)]
    /\ UNCHANGED <<response, pipelineVars, filterVars, tctx, shell, mock, twin>>

NextParse == Parse

SpecParse == InitParse /\ [][NextParse]_vars

(***************************************************************************)
(* Claims about ParseDecisionResponse (SpecParse).                         *)
(***************************************************************************)
Chars(s) == { s[i] : i \in 1..Len(s) }

\* the text from the first `{` to the last `}` (empty when they are out of order)
Payload(resp) ==
    SubSeq(resp, Index(resp, LBrace) + 1, LastIndex(resp, RBrace) + 1)

\* the cases in which C4 requires the skip fallback
MustFallBack(resp) ==
    \/ LBrace \notin Chars(resp)
    \/ RBrace \notin Chars(resp)
    \/ Unmarshal(Payload(resp)).err

\* C4: for every response text ParseDecisionResponse returns normally, and
\* when the text has no `{` or no `}`, or the text between the first `{` and
\* the last `}` is not a decodable decision object (including a last `}`
\* that precedes the first `{`), the result is `skip` with a non-empty
\* reasoning.
C4_ParseAlwaysReturnsAndFallsBack ==
    parsed.done =>
        /\ ~parsed.r.panic
        /\ MustFallBack(response) =>
              /\ parsed.r.decision.Action = "skip"
              /\ parsed.r.decision.Reasoning # ""

\* C5: every Decision produced from a reasoning-engine response has an
\* action that is one of the five tags.
C5_ActionIsOneOfFiveTags ==
    (parsed.done /\ ~parsed.r.panic) => parsed.r.decision.Action \in ActionTags

\* the fields C6 compares
SameOutcome(r1, r2) ==
    /\ r1.panic = r2.panic
    /\ r1.decision.Action = r2.decision.Action
    /\ r1.decision.Priority = r2.decision.Priority
    /\ r1.decision.NewContent = r2.decision.NewContent
    /\ r1.decision.Subtasks = r2.decision.Subtasks
    /\ r1.decision.Reasoning = r2.decision.Reasoning
    /\ r1.decision.InertiaScore = r2.decision.InertiaScore

BraceFree(s) == LBrace \notin Chars(s) /\ RBrace \notin Chars(s)

\* C6: whenever the parsed text is prefix + J + suffix, with J a well-formed
\* JSON object and prefix and suffix free of braces, the result has the
\* action, priority, new content, subtasks, reasoning and score that parsing
\* J alone yields.
C6_ProseWrappingIgnored ==
    parsed.done =>
        \A i \in 1..Len(response) : \A j \in i..Len(response) :
            LET pre == SubSeq(response, 1, i - 1)
                J == SubSeq(response, i, j)
                post == SubSeq(response, j + 1, Len(response))
            IN  (BraceFree(pre) /\ BraceFree(post) /\ ValidJSON(J))
                    => SameOutcome(parsed.r, ParseDecisionResponse(J, parsed.taskID))

\* C6 witness: chatter around a decompose object, as in the engine test
C6_Witness ==
    /\ parsed.done
    /\ response = <<Prose, Prose, LBrace, MStr("action", "decompose"),
                    MArr("subtasks", <<"s1", "s2">>), RBrace, Prose>>
    /\ parsed.r.decision.Action = "decompose"
    /\ parsed.r.decision.Subtasks = <<"s1", "s2">>

(***************************************************************************)
(* Task struct (the fields the pipeline reads) and FilterLeafNodes.        *)
(***************************************************************************)
Task(id, parentID, content) == [ID |-> id, ParentID |-> parentID, Content |-> content]

FilterInputTasks ==
    { Task(id, p, c) : id \in TaskIDs,
                       p \in {NilStr} \cup { PtrStr(x) : x \in TaskIDs },
                       c \in {"t1", "t2"} }

\* first loop: the set of identifiers that occur as some task's ParentID
RECURSIVE CollectParentIDs(_, _, _)
CollectParentIDs(ts, i, parentIDs) ==
    IF i > Len(ts) THEN parentIDs
    ELSE CollectParentIDs(ts, i + 1,
            IF ts[i].ParentID.nil THEN parentIDs
            ELSE parentIDs \cup {ts[i].ParentID.v})

\* second loop: append every task whose ID is not in parentIDs
RECURSIVE AppendLeaves(_, _, _, _)
AppendLeaves(ts, i, parentIDs, leafTasksAcc) ==
    IF i > Len(ts) THEN leafTasksAcc
    ELSE AppendLeaves(ts, i + 1, parentIDs,
            IF ts[i].ID \notin parentIDs THEN Append(leafTasksAcc, ts[i])
            ELSE leafTasksAcc)

\* mutant of FilterLeafNodes: drops every task that has a parent of its own
FilterLeafNodes_mutRootsOnly(ts) ==
    SelectSeq(AppendLeaves(ts, 1, CollectParentIDs(ts, 1, {}), <<>>),
              LAMBDA t : t.ParentID.nil)

\* mutant of FilterLeafNodes: every fetched task is kept
FilterLeafNodes_mutKeepsAll(ts) == ts

\* mutant of FilterLeafNodes: a task that names itself as its parent does
\* not count as a parent
FilterLeafNodes_mutIgnoresSelfParent(ts) ==
    AppendLeaves(ts, 1,
                 { ts[j].ParentID.v : j \in { k \in 1..Len(ts) :
                       ~ts[k].ParentID.nil /\ ts[k].ParentID.v # ts[k].ID } },
                 <<>>)

FilterLeafNodes(ts) ==
    AppendLeaves(ts, 1, CollectParentIDs(ts, 1, {}), <<>>)

InitFilter ==
    /\ fTasks \in SeqsUpTo(FilterInputTasks, MaxFilterTasks)
    /\ fLeaves = NotFiltered
    /\ IdlePipeline
    /\ IdleParse
    /\ tctx = IdleContextualize
    /\ shell = IdleShell
    /\ mock = NoMock
    /\ twin = IdleTwin

Filter ==
    /\ ~fLeaves.done
    /\ fLeaves' = [done |-> TRUE, out |-> FilterLeafNodes(fTasks)]
    /\ UNCHANGED <<fTasks, pipelineVars, parseVars, tctx, shell, mock, twin>>

NextFilter == Filter

SpecFilter == InitFilter /\ [][NextFilter]_vars

(***************************************************************************)
(* Claims about FilterLeafNodes (SpecFilter).                              *)
(***************************************************************************)
\* positions of the tasks that are not the parent of any task of the list
LeafPositions(ts) ==
    { i \in 1..Len(ts) :
        \A j \in 1..Len(ts) : ts[j].ParentID.nil \/ ts[j].ParentID.v # ts[i].ID }

\* the k-th smallest element of a set of positions
KthPosition(P, k) == CHOOSE i \in P : Cardinality({ j \in P : j < i }) = k - 1

\* C9: FilterLeafNodes returns exactly the tasks whose identifier is not the
\* parent identifier of any task in the list, each once, in their original
\* relative order; a task with children is excluded whether or not it has a
\* parent itself.
C9_FilterKeepsExactlyLeavesInOrder ==
    fLeaves.done =>
        LET P == LeafPositions(fTasks)
        IN  /\ Len(fLeaves.out) = Cardinality(P)
            /\ \A k \in 1..Len(fLeaves.out) :
                  fLeaves.out[k] = fTasks[KthPosition(P, k)]
            /\ \A i \in 1..Len(fTasks) :
                  (\E j \in 1..Len(fTasks) :
                      ~fTasks[j].ParentID.nil /\ fTasks[j].ParentID.v = fTasks[i].ID)
                  => \A k \in 1..Len(fLeaves.out) : fLeaves.out[k].ID # fTasks[i].ID

\* C9 witness: the shape of the engine test (parent, child, lone task): the
\* parent is dropped, the other two are kept in order
C9_Witness ==
    /\ fLeaves.done
    /\ fTasks = <<Task("a", NilStr, "t1"), Task("b", PtrStr("a"), "t1"),
                  Task("b", NilStr, "t2")>>
    /\ fLeaves.out = <<Task("b", PtrStr("a"), "t1"), Task("b", NilStr, "t2")>>

(***************************************************************************)
(* The reasoning engine: what CommandRunner.RunWithStdin returns.          *)
(***************************************************************************)
Failure == [err |-> TRUE, out |-> <<>>]
Success(text) == [err |-> FALSE, out |-> text]

\* the first response also names a task: the parent task p1 of FetchedLists
RespReprioritize ==
    <<LBrace, MStr("id", "p1"), MStr("action", "reprioritize"), MNum("priority", 2), RBrace>>
RespDecompose == <<Prose, LBrace, MStr("action", "decompose"), MArr("subtasks", <<"s1", "s2">>), RBrace>>
RespProse == <<Prose>>
RespBracesReversed == <<RBrace, Prose, LBrace>>

Outcomes ==
    { Failure, Success(RespReprioritize), Success(RespDecompose),
      Success(RespProse), Success(RespBracesReversed) }

\* mutant of CallAgentForDecision: a failed invocation is propagated
CallAgentForDecision_mutPropagates(taskCtx, outcome) ==
    IF outcome.err THEN Panicked
    ELSE ParseDecisionResponse(outcome.out, taskCtx.Task.ID)

CallAgentForDecision(taskCtx, outcome) ==
    IF outcome.err
    THEN Returned(Decision(taskCtx.Task.ID, "skip", NilInt, NilStr, <<>>,
                           "LLM call failed: " \o "exit status 1", 0))
    ELSE ParseDecisionResponse(outcome.out, taskCtx.Task.ID)

\* the Decision depends on the TaskContext through Task.ID only
ProcessTask(task, outcome) == CallAgentForDecision([Task |-> task], outcome)

(***************************************************************************)
(* ProcessTasksParallel.                                                   *)
(***************************************************************************)
NoDecision == Decision("", "", NilInt, NilStr, <<>>, "", 0)
IdleWorker == [st |-> "idle", calls |-> 0, outcome |-> Failure, decision |-> NoDecision]

\* make(chan Decision, len(tasks)), make(chan struct{}, maxConcurrency), wg
EnterProcessTasksParallel(ts) ==
    /\ leafTasks' = ts
    /\ nextIdx' = 0
    /\ sem' = 0
    /\ wg' = 0
    /\ results' = <<>>
    /\ closed' = FALSE
    /\ closer' = "none"
    /\ workers' = [i \in 1..Len(ts) |-> IdleWorker]
    /\ decisions' = <<>>

Running == pc \in {"dispatch", "collect"}

\* mutant of SemCanSend: the semaphore never blocks
SemCanSend_mutUnbounded == TRUE

\* mutant of SemCanSend: a channel of capacity 0 takes one send
SemCanSend_mutZeroTakesOne == sem < maxConcurrency \/ (maxConcurrency = 0 /\ sem = 0)

\* `sem <- struct{}{}` can proceed
SemCanSend == sem < maxConcurrency

\* mutant of WaitReturns: the closer does not wait for the workers
WaitReturns_mutNoWait == TRUE

\* mutant of WaitReturns: the closer returns while one worker is left
WaitReturns_mutOneLeft == wg <= 1

\* wg.Wait() can return
WaitReturns == wg = 0

\* mutant of CanRelease: the slot is given back while the call is running
CanRelease_mutDuringCall(w) == w.st \in {"calling", "published"}

\* mutant of CanRelease: the slot is given back in place of the publication
CanRelease_mutBeforePublish(w) == w.st = "decided"

\* the deferred `<-sem` runs when the goroutine's function returns, that is
\* after `results <- decision`
CanRelease(w) == w.st = "published"

\* loop body: wg.Add(1); sem <- struct{}{}; go func(t Task)
Dispatch ==
    /\ pc = "dispatch"
    /\ nextIdx < Len(leafTasks)
    /\ SemCanSend
    /\ wg' = wg + 1
    /\ sem' = sem + 1
    /\ nextIdx' = nextIdx + 1
    /\ workers' = [workers EXCEPT ![nextIdx + 1].st = "spawned"]
    /\ UNCHANGED <<pc, dryRun, maxConcurrency, ctxStatus, listStatus, listCalls,
                   tasks, leafTasks, results, closed, closer, decisions,
                   execNext, execWg, execW, parseVars, filterVars, tctx, shell, mock, twin>>

\* `sem <- struct{}{}` on a channel of capacity 0 before any goroutine has
\* been started: nothing will ever receive.  The caller stays blocked, or,
\* when no other goroutine of the process can run, the Go runtime ends the
\* process (fatal error: all goroutines are asleep - deadlock!)
RuntimeDeadlock ==
    /\ pc = "dispatch"
    /\ nextIdx < Len(leafTasks)
    /\ maxConcurrency = 0
    /\ ~SemCanSend
    /\ pc' = "deadlock"
    /\ UNCHANGED <<dryRun, maxConcurrency, ctxStatus, listStatus, listCalls,
                   tasks, leafTasks, nextIdx, sem, wg, results, closed, closer,
                   workers, decisions, execNext, execWg, execW, parseVars,
                   filterVars, tctx, shell, mock, twin>>

\* after the loop: go func() { wg.Wait(); close(results) }()
StartCloser ==
    /\ pc = "dispatch"
    /\ nextIdx = Len(leafTasks)
    /\ closer' = "waiting"
    /\ pc' = "collect"
    /\ UNCHANGED <<dryRun, maxConcurrency, ctxStatus, listStatus, listCalls,
                   tasks, leafTasks, nextIdx, sem, wg, results, closed, workers,
                   decisions, execNext, execWg, execW, parseVars, filterVars, tctx, shell, mock, twin>>

\* the closer goroutine: wg.Wait() returns, close(results)
CloserClose ==
    /\ Running
    /\ closer = "waiting"
    /\ WaitReturns
    /\ closed' = TRUE
    /\ closer' = "done"
    /\ UNCHANGED <<pc, dryRun, maxConcurrency, ctxStatus, listStatus, listCalls,
                   tasks, leafTasks, nextIdx, sem, wg, results, workers,
                   decisions, execNext, execWg, execW, parseVars, filterVars, tctx, shell, mock, twin>>

\* what RunWithStdin returns: anything with the real runner, the configured
\* m.Outputs[name], m.Errors[name] with MockRunner
RunnerOutcomes == IF mock.installed THEN {mock.outcome} ELSE Outcomes

\* MockRunner.RunWithStdin, first half: m.StdinSent = stdin (the prompt,
\* named here by its task), and the read of m.CalledCommands by append
MockBegin(i) ==
    IF mock.installed
    THEN [mock EXCEPT !.StdinSent = leafTasks[i].ID, !.local[i] = mock.CalledCommands]
    ELSE mock

\* MockRunner.RunWithStdin, second half: the appended slice is stored in
\* m.CalledCommands; no lock separates it from the read
MockEnd(i) ==
    IF mock.installed
    THEN [mock EXCEPT !.CalledCommands = Append(mock.local[i], <<"openclaw", "chat">>)]
    ELSE mock

\* worker: ContextualizeTask, BuildDecisionPrompt, RunWithStdin is invoked
WorkerCall(i) ==
    /\ Running
    /\ workers[i].st = "spawned"
    /\ workers' = [workers EXCEPT ![i].st = "calling", ![i].calls = @ + 1]
    /\ mock' = MockBegin(i)
    /\ UNCHANGED <<pc, dryRun, maxConcurrency, ctxStatus, listStatus, listCalls,
                   tasks, leafTasks, nextIdx, sem, wg, results, closed, closer,
                   decisions, execNext, execWg, execW, parseVars, filterVars, tctx, shell, twin>>

\* worker: RunWithStdin returns, the Decision is built; a panic in the
\* goroutine ends the process
WorkerReturn(i) ==
    /\ Running
    /\ workers[i].st = "calling"
    /\ mock' = MockEnd(i)
    /\ \E o \in RunnerOutcomes :
         LET r == ProcessTask(leafTasks[i], o)
         IN  IF r.panic
             THEN /\ workers' = [workers EXCEPT ![i].st = "panicked", ![i].outcome = o]
                  /\ pc' = "crashed"
             ELSE /\ workers' = [workers EXCEPT ![i].st = "decided", ![i].outcome = o,
                                                ![i].decision = r.decision]
                  /\ pc' = pc
    /\ UNCHANGED <<dryRun, maxConcurrency, ctxStatus, listStatus, listCalls,
                   tasks, leafTasks, nextIdx, sem, wg, results, closed, closer,
                   decisions, execNext, execWg, execW, parseVars, filterVars, tctx, shell, twin>>

\* worker: results <- decision (a send on a closed channel panics)
WorkerPublish(i) ==
    /\ Running
    /\ workers[i].st = "decided"
    /\ closed \/ Len(results) < Len(leafTasks)
    /\ IF closed
       THEN /\ workers' = [workers EXCEPT ![i].st = "panicked"]
            /\ pc' = "crashed"
            /\ results' = results
       ELSE /\ workers' = [workers EXCEPT ![i].st = "published"]
            /\ pc' = pc
            /\ results' = Append(results, workers[i].decision)
    /\ UNCHANGED <<dryRun, maxConcurrency, ctxStatus, listStatus, listCalls,
                   tasks, leafTasks, nextIdx, sem, wg, closed, closer,
                   decisions, execNext, execWg, execW, parseVars, filterVars, tctx, shell, mock, twin>>

\* worker, deferred: <-sem
WorkerRelease(i) ==
    /\ Running
    /\ CanRelease(workers[i])
    /\ sem > 0
    /\ sem' = sem - 1
    /\ workers' = [workers EXCEPT ![i].st = "released"]
    /\ UNCHANGED <<pc, dryRun, maxConcurrency, ctxStatus, listStatus, listCalls,
                   tasks, leafTasks, nextIdx, wg, results, closed, closer,
                   decisions, execNext, execWg, execW, parseVars, filterVars, tctx, shell, mock, twin>>

\* worker, deferred: wg.Done()
WorkerDone(i) ==
    /\ Running
    /\ workers[i].st = "released"
    /\ wg' = wg - 1
    /\ workers' = [workers EXCEPT ![i].st = "done"]
    /\ UNCHANGED <<pc, dryRun, maxConcurrency, ctxStatus, listStatus, listCalls,
                   tasks, leafTasks, nextIdx, sem, results, closed, closer,
                   decisions, execNext, execWg, execW, parseVars, filterVars, tctx, shell, mock, twin>>

\* collector: one iteration of `for decision := range results`
Collect ==
    /\ pc = "collect"
    /\ results # <<>>
    /\ decisions' = Append(decisions, Head(results))
    /\ results' = Tail(results)
    /\ UNCHANGED <<pc, dryRun, maxConcurrency, ctxStatus, listStatus, listCalls,
                   tasks, leafTasks, nextIdx, sem, wg, closed, closer, workers,
                   execNext, execWg, execW, parseVars, filterVars, tctx, shell, mock, twin>>

\* mutant of RangeEnds: the loop ends as soon as the buffer is empty
RangeEnds_mutOnEmpty == results = <<>>

\* `for decision := range results` ends when the channel is closed and
\* drained
RangeEnds == results = <<>> /\ closed

\* collector: the range loop ends on the closed, drained channel; return
CollectorExit ==
    /\ pc = "collect"
    /\ RangeEnds
    /\ pc' = "returned"
    /\ UNCHANGED <<dryRun, maxConcurrency, ctxStatus, listStatus, listCalls,
                   tasks, leafTasks, nextIdx, sem, wg, results, closed, closer,
                   workers, decisions, execNext, execWg, execW, parseVars, filterVars, tctx, shell, mock, twin>>

ParTasks == { Task(id, NilStr, "t1") : id \in TaskIDs }

InitPar ==
    /\ pc = "dispatch"
    /\ dryRun = FALSE
    /\ maxConcurrency \in 0..MaxK
    /\ ctxStatus = "none"
    /\ listStatus = "none"
    /\ listCalls = 0
    /\ tasks = <<>>
    /\ leafTasks \in SeqsUpTo(ParTasks, MaxTasks)
    /\ nextIdx = 0
    /\ sem = 0
    /\ wg = 0
    /\ results = <<>>
    /\ closed = FALSE
    /\ closer = "none"
    /\ workers = [i \in 1..Len(leafTasks) |-> IdleWorker]
    /\ decisions = <<>>
    /\ execNext = 0
    /\ execWg = 0
    /\ execW = <<>>
    /\ IdleParse
    /\ IdleFilter
    /\ tctx = IdleContextualize
    /\ shell = IdleShell
    /\ mock = NoMock
    /\ twin = IdleTwin

NextPar ==
    \/ Dispatch
    \/ RuntimeDeadlock
    \/ StartCloser
    \/ CloserClose
    \/ Collect
    \/ CollectorExit
    \/ \E i \in 1..Len(leafTasks) : WorkerCall(i)
    \/ \E i \in 1..Len(leafTasks) : WorkerReturn(i)
    \/ \E i \in 1..Len(leafTasks) : WorkerPublish(i)
    \/ \E i \in 1..Len(leafTasks) : WorkerRelease(i)
    \/ \E i \in 1..Len(leafTasks) : WorkerDone(i)

SpecPar == InitPar /\ [][NextPar]_vars

\* ProcessTasksParallel with the MockRunner installed as CommandRunner
InitMock ==
    /\ pc = "dispatch"
    /\ dryRun = FALSE
    /\ maxConcurrency \in 0..MaxK
    /\ ctxStatus = "none"
    /\ listStatus = "none"
    /\ listCalls = 0
    /\ tasks = <<>>
    /\ leafTasks \in SeqsUpTo(ParTasks, MaxTasks)
    /\ nextIdx = 0
    /\ sem = 0
    /\ wg = 0
    /\ results = <<>>
    /\ closed = FALSE
    /\ closer = "none"
    /\ workers = [i \in 1..Len(leafTasks) |-> IdleWorker]
    /\ decisions = <<>>
    /\ execNext = 0
    /\ execWg = 0
    /\ execW = <<>>
    /\ IdleParse
    /\ IdleFilter
    /\ tctx = IdleContextualize
    /\ shell = IdleShell
    /\ \E o \in {Failure, Success(RespReprioritize), Success(RespDecompose)} :
          mock = [installed |-> TRUE, outcome |-> o, StdinSent |-> "",
                  CalledCommands |-> <<>>,
                  local |-> [i \in 1..Len(leafTasks) |-> <<>>]]
    /\ twin = IdleTwin

SpecMock == InitMock /\ [][NextPar]_vars

\* fair scheduling: a goroutine that can take a step eventually takes one,
\* and every started RunWithStdin call returns
SpecParFair == InitPar /\ [][NextPar]_vars /\ WF_vars(NextPar)

(***************************************************************************)
(* ExecuteDecision: the commands it passes to CommandRunner.Run, in order. *)
(***************************************************************************)
Digit(d) ==
    CASE d = 0 -> "0" [] d = 1 -> "1" [] d = 2 -> "2" [] d = 3 -> "3" [] d = 4 -> "4"
      [] d = 5 -> "5" [] d = 6 -> "6" [] d = 7 -> "7" [] d = 8 -> "8" [] d = 9 -> "9"

RECURSIVE Digits(_)
Digits(n) == IF n < 10 THEN Digit(n) ELSE Digits(n \div 10) \o Digit(n % 10)

\* the %d verb of fmt.Sprintf
FormatInt(n) == IF n < 0 THEN "-" \o Digits(0 - n) ELSE Digits(n)

\* mutant of AddSubtaskCommands: the loop stops after its first subtask
AddSubtaskCommands_mutFirstOnly(subtasks, i, taskID) ==
    IF i > Len(subtasks) THEN <<>>
    ELSE <<(<<"td", "task", "add", subtasks[i], "--parent", taskID>>)>>

RECURSIVE AddSubtaskCommands(_, _, _)
AddSubtaskCommands(subtasks, i, taskID) ==
    IF i > Len(subtasks) THEN <<>>
    ELSE <<(<<"td", "task", "add", subtasks[i], "--parent", taskID>>)>>
         \o AddSubtaskCommands(subtasks, i + 1, taskID)

\* mutant of ExecuteDecision: the priority token is formatted without the p
ExecuteDecision_mutBarePriority(d) ==
    IF d.Action = "reprioritize" /\ ~d.Priority.nil
    THEN <<(<<"td", "task", "update", d.TaskID, "--priority", FormatInt(d.Priority.v)>>)>>
    ELSE <<>>

\* mutant of ExecuteDecision: ice-box moves the task instead of only logging
ExecuteDecision_mutIceBoxMoves(d) ==
    IF d.Action = "ice-box"
    THEN <<(<<"td", "task", "move", d.TaskID, "--project", "icebox">>)>>
    ELSE <<>>

\* mutant of ExecuteDecision: the replacement content is sent as a description
ExecuteDecision_mutDescriptionFlag(d) ==
    IF d.Action = "recontextualize" /\ ~d.NewContent.nil
    THEN <<(<<"td", "task", "update", d.TaskID, "--description", d.NewContent.v>>)>>
    ELSE <<>>

\* mutant of ExecuteDecision: every field that is present is applied, under
\* any action other than skip and ice-box
ExecuteDecision_mutAppliesEveryField(d) ==
    IF d.Action \in {"skip", "ice-box"} THEN <<>>
    ELSE (IF ~d.Priority.nil
          THEN <<(<<"td", "task", "update", d.TaskID, "--priority",
                    "p" \o FormatInt(d.Priority.v)>>)>>
          ELSE <<>>)
         \o (IF ~d.NewContent.nil
             THEN <<(<<"td", "task", "update", d.TaskID, "--content", d.NewContent.v>>)>>
             ELSE <<>>)
         \o AddSubtaskCommands(d.Subtasks, 1, d.TaskID)

ExecuteDecision(d) ==
    CASE d.Action = "skip" -> <<>>
      [] d.Action = "reprioritize" ->
            IF ~d.Priority.nil
            THEN <<(<<"td", "task", "update", d.TaskID, "--priority",
                      "p" \o FormatInt(d.Priority.v)>>)>>
            ELSE <<>>
      [] d.Action = "recontextualize" ->
            IF ~d.NewContent.nil
            THEN <<(<<"td", "task", "update", d.TaskID, "--content", d.NewContent.v>>)>>
            ELSE <<>>
      [] d.Action = "decompose" -> AddSubtaskCommands(d.Subtasks, 1, d.TaskID)
      [] d.Action = "ice-box" -> <<>>
      [] OTHER -> <<>>

(***************************************************************************)
(* ExecuteDecisionsParallel.                                               *)
(***************************************************************************)
IdleExec == [st |-> "idle", issued |-> <<>>]

\* mutant of Remaining: a failed command ends the Decision's execution
Remaining_mutStopsOnError(d, issued) ==
    IF \E k \in 1..Len(issued) : issued[k].err THEN <<>>
    ELSE SubSeq(ExecuteDecision(d), Len(issued) + 1, Len(ExecuteDecision(d)))

\* the commands ExecuteDecision has still to issue once `issued` have run:
\* an error of Run is logged and neither returns nor leaves the loop
Remaining(d, issued) ==
    SubSeq(ExecuteDecision(d), Len(issued) + 1, Len(ExecuteDecision(d)))

EnterExecuteDecisionsParallel ==
    /\ execNext' = 0
    /\ execWg' = 0
    /\ execW' = [i \in 1..Len(decisions) |-> IdleExec]

\* loop body: wg.Add(1); go func(d Decision)
ExecSpawn ==
    /\ pc = "exec"
    /\ execNext < Len(decisions)
    /\ execWg' = execWg + 1
    /\ execNext' = execNext + 1
    /\ execW' = [execW EXCEPT ![execNext + 1].st = "running"]
    /\ UNCHANGED <<pc, dryRun, maxConcurrency, ctxStatus, listStatus, listCalls,
                   tasks, leafTasks, nextIdx, sem, wg, results, closed, closer,
                   workers, decisions, parseVars, filterVars, tctx, shell, mock, twin>>

\* ExecuteDecision issues its next command; Run returns nil or an error,
\* which is logged
ExecRun(i) ==
    /\ pc = "exec"
    /\ execW[i].st = "running"
    /\ Remaining(decisions[i], execW[i].issued) # <<>>
    /\ \E failed \in BOOLEAN :
         execW' = [execW EXCEPT ![i].issued =
                      Append(@, [argv |-> Head(Remaining(decisions[i], @)),
                                 err |-> failed])]
    /\ UNCHANGED <<pc, dryRun, maxConcurrency, ctxStatus, listStatus, listCalls,
                   tasks, leafTasks, nextIdx, sem, wg, results, closed, closer,
                   workers, decisions, execNext, execWg, parseVars, filterVars, tctx, shell, mock, twin>>

\* ExecuteDecision returns; deferred wg.Done()
ExecReturn(i) ==
    /\ pc = "exec"
    /\ execW[i].st = "running"
    /\ Remaining(decisions[i], execW[i].issued) = <<>>
    /\ execW' = [execW EXCEPT ![i].st = "done"]
    /\ execWg' = execWg - 1
    /\ UNCHANGED <<pc, dryRun, maxConcurrency, ctxStatus, listStatus, listCalls,
                   tasks, leafTasks, nextIdx, sem, wg, results, closed, closer,
                   workers, decisions, execNext, parseVars, filterVars, tctx, shell, mock, twin>>

\* mutant of ExecWaitReturns: the call does not wait for its goroutines
ExecWaitReturns_mutNoWait == TRUE

\* wg.Wait() of ExecuteDecisionsParallel can return
ExecWaitReturns == execWg = 0

\* after the loop: wg.Wait() returns
ExecWait ==
    /\ pc = "exec"
    /\ execNext = Len(decisions)
    /\ ExecWaitReturns
    /\ pc' = "done"
    /\ UNCHANGED <<dryRun, maxConcurrency, ctxStatus, listStatus, listCalls,
                   tasks, leafTasks, nextIdx, sem, wg, results, closed, closer,
                   workers, decisions, execNext, execWg, execW, parseVars, filterVars, tctx, shell, mock, twin>>

Priorities == {-1, 0, 2, 13}

ExecTaskIDs == {"123", "a"}

ExecDecisions ==
    { Decision(id, act, pr, nc, st, "r", 0) :
        id \in ExecTaskIDs,
        act \in ActionTags \cup {"", "delete"},
        pr \in {NilInt} \cup { PtrInt(n) : n \in Priorities },
        nc \in {NilStr, PtrStr(""), PtrStr("c")},
        st \in SeqsUpTo({"s1", "s2"}, MaxSubtasks) }

InitExec ==
    /\ pc = "exec"
    /\ dryRun = FALSE
    /\ maxConcurrency = 0
    /\ ctxStatus = "none"
    /\ listStatus = "none"
    /\ listCalls = 0
    /\ tasks = <<>>
    /\ leafTasks = <<>>
    /\ nextIdx = 0
    /\ sem = 0
    /\ wg = 0
    /\ results = <<>>
    /\ closed = FALSE
    /\ closer = "none"
    /\ workers = <<>>
    /\ \E d \in ExecDecisions : decisions = <<d>>
    /\ execNext = 0
    /\ execWg = 0
    /\ execW = [i \in 1..Len(decisions) |-> IdleExec]
    /\ IdleParse
    /\ IdleFilter
    /\ tctx = IdleContextualize
    /\ shell = IdleShell
    /\ mock = NoMock
    /\ twin = IdleTwin

NextExec ==
    \/ ExecSpawn
    \/ ExecWait
    \/ \E i \in 1..Len(decisions) : ExecRun(i)
    \/ \E i \in 1..Len(decisions) : ExecReturn(i)

SpecExec == InitExec /\ [][NextExec]_vars

\* ExecuteDecisionsParallel over a list of several Decisions
ParDecisions ==
    { Decision("a", "decompose", NilInt, NilStr, <<"s1", "s2">>, "r", 0),
      Decision("b", "reprioritize", PtrInt(2), NilStr, <<>>, "r", 0),
      Decision("a", "recontextualize", NilInt, PtrStr("c"), <<>>, "r", 0),
      Decision("b", "skip", NilInt, NilStr, <<>>, "r", 0) }

InitExecPar ==
    /\ pc = "exec"
    /\ dryRun = FALSE
    /\ maxConcurrency = 0
    /\ ctxStatus = "none"
    /\ listStatus = "none"
    /\ listCalls = 0
    /\ tasks = <<>>
    /\ leafTasks = <<>>
    /\ nextIdx = 0
    /\ sem = 0
    /\ wg = 0
    /\ results = <<>>
    /\ closed = FALSE
    /\ closer = "none"
    /\ workers = <<>>
    /\ decisions \in SeqsUpTo(ParDecisions, MaxDecisions)
    /\ execNext = 0
    /\ execWg = 0
    /\ execW = [i \in 1..Len(decisions) |-> IdleExec]
    /\ IdleParse
    /\ IdleFilter
    /\ tctx = IdleContextualize
    /\ shell = IdleShell
    /\ mock = NoMock
    /\ twin = IdleTwin

SpecExecPar == InitExecPar /\ [][NextExec]_vars

\* fair scheduling, and every mutation command returns
SpecExecParFair == InitExecPar /\ [][NextExec]_vars /\ WF_vars(NextExec)

(***************************************************************************)
(* main(): load context, fetch tasks, filter leaves, request decisions,    *)
(* and, unless --dry-run, execute them.                                    *)
(***************************************************************************)
FetchedLists ==
    { <<>>,
      <<Task("l1", NilStr, "t1")>>,
      <<Task("p1", NilStr, "t1"), Task("c1", PtrStr("p1"), "t1")>>,
      <<Task("p1", NilStr, "t1"), Task("c1", PtrStr("p1"), "t1"), Task("l1", NilStr, "t2")>> }

\* mutant of LoadFailureIsFatal: the error of loadContext is ignored
LoadFailureIsFatal_mutIgnored(ok) == FALSE

\* `if err != nil { log.Fatalf(...) }` after loadContext
LoadFailureIsFatal(ok) == ~ok

\* mutant of SkipExecution: the dry-run flag is ignored
SkipExecution_mutIgnoresFlag == FALSE

\* `if *dryRun { return }`
SkipExecution == dryRun

\* context, err := loadContext(*contextFile)
LoadContext ==
    /\ pc = "start"
    /\ \E ok \in BOOLEAN :
         /\ ctxStatus' = IF ok THEN "ok" ELSE "fail"
         /\ pc' = IF LoadFailureIsFatal(ok) THEN "fatal" ELSE "loaded"
    /\ UNCHANGED <<dryRun, maxConcurrency, listStatus, listCalls, tasks, leafTasks,
                   nextIdx, sem, wg, results, closed, closer, workers, decisions,
                   execNext, execWg, execW, parseVars, filterVars, tctx, shell, mock, twin>>

\* tasks, err := fetchAllTasks(): the list command runs once; a command
\* error or undecodable output is fatal
FetchAllTasks ==
    /\ pc = "loaded"
    /\ listCalls' = listCalls + 1
    /\ \/ /\ \E st \in {"fail", "baddecode"} : listStatus' = st
          /\ tasks' = <<>>
          /\ pc' = "fatal"
       \/ /\ listStatus' = "ok"
          /\ tasks' \in FetchedLists
          /\ pc' = "fetched"
    /\ UNCHANGED <<dryRun, maxConcurrency, ctxStatus, leafTasks, nextIdx, sem, wg,
                   results, closed, closer, workers, decisions, execNext, execWg,
                   execW, parseVars, filterVars, tctx, shell, mock, twin>>

\* leafTasks := filterLeafNodes(tasks); processTasksParallel is entered
FilterLeaves ==
    /\ pc = "fetched"
    /\ EnterProcessTasksParallel(FilterLeafNodes(tasks))
    /\ pc' = "dispatch"
    /\ UNCHANGED <<dryRun, maxConcurrency, ctxStatus, listStatus, listCalls, tasks,
                   execNext, execWg, execW, parseVars, filterVars, tctx, shell, mock, twin>>

\* decisions are logged; dry-run returns, otherwise executeDecisionsParallel
DryRunCheck ==
    /\ pc = "returned"
    /\ IF SkipExecution
       THEN pc' = "done" /\ UNCHANGED <<execNext, execWg, execW>>
       ELSE pc' = "exec" /\ EnterExecuteDecisionsParallel
    /\ UNCHANGED <<dryRun, maxConcurrency, ctxStatus, listStatus, listCalls, tasks,
                   leafTasks, nextIdx, sem, wg, results, closed, closer, workers,
                   decisions, parseVars, filterVars, tctx, shell, mock, twin>>

Init ==
    /\ pc = "start"
    /\ dryRun \in BOOLEAN
    /\ maxConcurrency \in 0..MaxK
    /\ ctxStatus = "none"
    /\ listStatus = "none"
    /\ listCalls = 0
    /\ tasks = <<>>
    /\ leafTasks = <<>>
    /\ nextIdx = 0
    /\ sem = 0
    /\ wg = 0
    /\ results = <<>>
    /\ closed = FALSE
    /\ closer = "none"
    /\ workers = <<>>
    /\ decisions = <<>>
    /\ execNext = 0
    /\ execWg = 0
    /\ execW = <<>>
    /\ IdleParse
    /\ IdleFilter
    /\ tctx = IdleContextualize
    /\ shell = IdleShell
    /\ mock = NoMock
    /\ twin = IdleTwin

Next ==
    \/ LoadContext
    \/ FetchAllTasks
    \/ FilterLeaves
    \/ Dispatch
    \/ RuntimeDeadlock
    \/ StartCloser
    \/ CloserClose
    \/ Collect
    \/ CollectorExit
    \/ \E i \in 1..Len(leafTasks) : WorkerCall(i)
    \/ \E i \in 1..Len(leafTasks) : WorkerReturn(i)
    \/ \E i \in 1..Len(leafTasks) : WorkerPublish(i)
    \/ \E i \in 1..Len(leafTasks) : WorkerRelease(i)
    \/ \E i \in 1..Len(leafTasks) : WorkerDone(i)
    \/ DryRunCheck
    \/ ExecSpawn
    \/ ExecWait
    \/ \E i \in 1..Len(decisions) : ExecRun(i)
    \/ \E i \in 1..Len(decisions) : ExecReturn(i)

Spec == Init /\ [][Next]_vars

(***************************************************************************)
(* Claims about ProcessTasksParallel (SpecPar).                            *)
(***************************************************************************)
\* workers whose RunWithStdin call has started and not yet returned
InFlight == { i \in DOMAIN workers : workers[i].st = "calling" }

\* workers whose call has returned with a Decision
Decided == { i \in DOMAIN workers :
               workers[i].st \in {"decided", "published", "released", "done"} }

\* C1: for every concurrency limit K >= 1, the number of reasoning-engine
\* invocations that have started and not yet returned never exceeds K.
C1_InFlightCallsBounded ==
    maxConcurrency >= 1 => Cardinality(InFlight) <= maxConcurrency

\* C1 witness: K invocations are in flight while a task still waits for a slot
C1_Witness ==
    /\ maxConcurrency >= 1
    /\ Cardinality(InFlight) = maxConcurrency
    /\ pc = "dispatch"
    /\ nextIdx < Len(leafTasks)

\* occurrences of a task identifier among the returned Decisions / the tasks
DecisionsFor(id) == Cardinality({ k \in 1..Len(decisions) : decisions[k].TaskID = id })
TasksWith(id) == Cardinality({ i \in 1..Len(leafTasks) : leafTasks[i].ID = id })

ExpectedAction(text) ==
    CASE text = RespReprioritize -> "reprioritize"
      [] text = RespDecompose -> "decompose"
      [] text = RespProse -> "skip"

\* C3: a failed reasoning-engine invocation yields a Decision with the
\* task's identifier, action skip and a non-empty reasoning; the failure is
\* not propagated (it never ends the process), and every other task's
\* Decision is the one its own response determines.
C3_FailedCallDegradesToSkip ==
    /\ \A i \in DOMAIN workers :
         (workers[i].st = "panicked") => ~workers[i].outcome.err
    /\ pc = "crashed" => \E i \in DOMAIN workers : workers[i].st = "panicked"
    /\ \A i \in Decided :
         IF workers[i].outcome.err
         THEN /\ workers[i].decision.TaskID = leafTasks[i].ID
              /\ workers[i].decision.Action = "skip"
              /\ workers[i].decision.Reasoning # ""
         ELSE /\ workers[i].decision.TaskID = leafTasks[i].ID
              /\ workers[i].decision.Action = ExpectedAction(workers[i].outcome.out)
    /\ pc = "returned" =>
         \A k \in 1..Len(decisions) :
            \E i \in Decided : workers[i].decision = decisions[k]

\* C3 witness: the first task's invocation failed, the second task's
\* response asked to reprioritize, and both Decisions were returned
C3_Witness ==
    /\ pc = "returned"
    /\ Len(leafTasks) = 2
    /\ workers[1].outcome.err
    /\ workers[2].outcome = Success(RespReprioritize)
    /\ \E k \in 1..2 : decisions[k].TaskID = leafTasks[1].ID /\ decisions[k].Action = "skip"
    /\ \E k \in 1..2 : decisions[k].Action = "reprioritize" /\ decisions[k].Priority = PtrInt(2)

(***************************************************************************)
(* Claims about main() (Spec).                                             *)
(***************************************************************************)
\* executors that have issued a mutation command (CommandRunner.Run)
MutationsIssued == { i \in DOMAIN execW : execW[i].issued # <<>> }

\* reasoning-engine invocations issued so far
LLMCalls == { i \in DOMAIN workers : workers[i].calls > 0 }

\* C7: a dry run loads the context, fetches, filters and requests decisions
\* as a normal run does (one list command, one invocation per leaf task, the
\* Decisions determined by the responses) and issues no mutation command.
C7_DryRunIssuesNoMutation ==
    /\ dryRun => MutationsIssued = {}
    /\ pc \in {"returned", "exec", "done"} =>
         /\ ctxStatus = "ok"
         /\ listStatus = "ok"
         /\ listCalls = 1
         /\ Len(leafTasks) = Cardinality(LeafPositions(tasks))
         /\ \A i \in DOMAIN workers : workers[i].calls = 1
         /\ Len(decisions) = Len(leafTasks)
         /\ \A i \in DOMAIN workers :
              /\ Cardinality({ k \in 1..Len(decisions) : decisions[k] = workers[i].decision })
                   = Cardinality({ j \in DOMAIN workers : workers[j].decision = workers[i].decision })
              /\ workers[i].decision.TaskID = leafTasks[i].ID
              /\ workers[i].decision.Action =
                   IF workers[i].outcome.err THEN "skip"
                   ELSE ExpectedAction(workers[i].outcome.out)
    /\ (dryRun /\ pc = "done") => execW = <<>>

\* C7 witness: a finished dry run whose Decisions would have issued commands
C7_Witness ==
    /\ dryRun
    /\ pc = "done"
    /\ Len(decisions) = 2
    /\ \A k \in 1..2 : ExecuteDecision(decisions[k]) # <<>>
    /\ MutationsIssued = {}

\* C8: if loading the context fails the run ends without the task-list
\* command, any reasoning-engine invocation or any mutation command; if the
\* task-list command fails or its output does not decode, the run ends
\* without any reasoning-engine invocation or mutation command.
C8_FatalErrorsStopTheRun ==
    /\ ctxStatus = "fail" =>
         /\ pc = "fatal"
         /\ listCalls = 0
         /\ LLMCalls = {}
         /\ MutationsIssued = {}
    /\ listStatus \in {"fail", "baddecode"} =>
         /\ pc = "fatal"
         /\ listCalls = 1
         /\ LLMCalls = {}
         /\ MutationsIssued = {}

\* C8 witness: the context loaded, the task list did not decode, the run ended
C8_Witness ==
    /\ ctxStatus = "ok"
    /\ listStatus = "baddecode"
    /\ pc = "fatal"

(***************************************************************************)
(* Claims about ExecuteDecision (SpecExec).                                *)
(***************************************************************************)
Argvs(issued) == [k \in 1..Len(issued) |-> issued[k].argv]

IsPrefix(s, t) == Len(s) <= Len(t) /\ s = SubSeq(t, 1, Len(s))

\* the priority token `pN` of the values in Priorities
PriorityToken(n) ==
    CASE n = -1 -> "p-1" [] n = 0 -> "p0" [] n = 2 -> "p2" [] n = 13 -> "p13"

\* C10: for a reprioritize Decision with task id T and a present priority N,
\* ExecuteDecision issues exactly one command, td task update T --priority
\* pN, and nothing else; with an absent priority it issues no command.
C10_ReprioritizeIssuesOneUpdate ==
    \A i \in DOMAIN execW :
        decisions[i].Action = "reprioritize" =>
            LET d == decisions[i]
                expected ==
                    IF d.Priority.nil THEN <<>>
                    ELSE <<(<<"td", "task", "update", d.TaskID, "--priority",
                              PriorityToken(d.Priority.v)>>)>>
            IN  /\ IsPrefix(Argvs(execW[i].issued), expected)
                /\ execW[i].st = "done" => Argvs(execW[i].issued) = expected

\* C10 witness: the engine test, priority 2 for task 123
C10_Witness ==
    /\ pc = "done"
    /\ decisions[1].Action = "reprioritize"
    /\ decisions[1].TaskID = "123"
    /\ decisions[1].Priority = PtrInt(2)
    /\ execW[1].st = "done"
    /\ Argvs(execW[1].issued) = <<(<<"td", "task", "update", "123", "--priority", "p2">>)>>

\* C11: for a decompose Decision with task id T and subtasks s1..sn,
\* ExecuteDecision issues exactly n commands, td task add si --parent T for
\* i = 1..n in list order; with no subtasks it issues none.
C11_DecomposeAddsEachSubtaskInOrder ==
    \A i \in DOMAIN execW :
        decisions[i].Action = "decompose" =>
            LET d == decisions[i]
                got == Argvs(execW[i].issued)
            IN  /\ Len(got) <= Len(d.Subtasks)
                /\ \A k \in 1..Len(got) :
                       got[k] = <<"td", "task", "add", d.Subtasks[k], "--parent", d.TaskID>>
                /\ execW[i].st = "done" => Len(got) = Len(d.Subtasks)

\* C11 witness: two subtasks in the order s2, s1 under task 123
C11_Witness ==
    /\ pc = "done"
    /\ decisions[1].Action = "decompose"
    /\ decisions[1].Subtasks = <<"s2", "s1">>
    /\ execW[1].st = "done"
    /\ Argvs(execW[1].issued) =
          << <<"td", "task", "add", "s2", "--parent", "123">>,
             <<"td", "task", "add", "s1", "--parent", "123">> >>

C13_RecontextualizeIssuesOneUpdate ==
    \A i \in DOMAIN execW :
        decisions[i].Action = "recontextualize" =>
            LET d == decisions[i]
                got == Argvs(execW[i].issued)
            IN  /\ d.NewContent.nil => got = <<>>
                /\ ~d.NewContent.nil =>
                      /\ Len(got) <= 1
                      /\ \A k \in 1..Len(got) :
                             got[k] = <<"td", "task", "update", d.TaskID,
                                        "--content", d.NewContent.v>>
                      /\ execW[i].st = "done" => Len(got) = 1

\* C13 witness: present but empty replacement content is still sent
C13_Witness ==
    /\ pc = "done"
    /\ decisions[1].Action = "recontextualize"
    /\ decisions[1].NewContent = PtrStr("")
    /\ execW[1].st = "done"
    /\ Argvs(execW[1].issued) = <<(<<"td", "task", "update", decisions[1].TaskID, "--content", "">>)>>

(***************************************************************************)
(* SpecCtx: ContextualizeTask on every short content against gazetteers of *)
(* a few entities, and on creation times around now.                       *)
(***************************************************************************)
NameJ == <<"J">>
NameJW == <<"j", "w">>
NameJSpaceW == <<"J", " ", "w">>
NameWSpace == <<"w", " ">>

Contents == SeqsUpTo(CtxChars, MaxContentLen)

Descriptions == {<<>>, <<"w">>}

PeopleLists ==
    { <<>>, <<Entity(NameJSpaceW, NumSpan(200))>>,
      <<Entity(NameJ, NumSpan(200)), Entity(NameJW, AbsentSpan)>> }

ProjectLists ==
    { <<>>, <<Entity(NameJW, NumSpan(300))>>,
      <<Entity(NameJW, NumSpan(300)), Entity(<<>>, StrSpan)>> }

ConceptEntities ==
    { Entity(NameJSpaceW, NumSpan(100)), Entity(NameJSpaceW, AbsentSpan),
      Entity(NameJW, NumSpan(4)), Entity(NameJW, StrSpan),
      Entity(NameWSpace, NumSpan(-10)), Entity(NameJ, NullSpan) }

InitCtxMatch ==
    \E c \in Contents, d \in Descriptions, pe \in PeopleLists, pr \in ProjectLists,
       co \in SeqsUpTo(ConceptEntities, MaxConcepts) :
        tctx = [st |-> "ready", task |-> TaskFields(c, d, 1, 0),
                context |-> InertiaContext(pe, pr, co), now |-> 0,
                out |-> NoTaskContext, prompt |-> <<>>]

InitCtxAge ==
    \E n \in {0, 30}, a \in (0 - MaxAgeHours)..MaxAgeHours, p \in {0, 4} :
        tctx = [st |-> "ready", task |-> TaskFields(<<"w">>, <<>>, p, a),
                context |-> InertiaContext(<<>>, <<>>, <<>>), now |-> n,
                out |-> NoTaskContext, prompt |-> <<>>]

InitCtx ==
    /\ InitCtxMatch \/ InitCtxAge
    /\ IdlePipeline
    /\ IdleParse
    /\ IdleFilter
    /\ shell = IdleShell
    /\ mock = NoMock
    /\ twin = IdleTwin

Contextualize ==
    /\ tctx.st = "ready"
    /\ tctx' = [tctx EXCEPT !.st = "done",
                            !.out = ContextualizeTask(tctx.task, tctx.context, tctx.now)]
    /\ UNCHANGED <<pipelineVars, parseVars, filterVars, shell, mock, twin>>

\* one line of the prompt: label, free text, formatted text, free text
Line(label, text, str, tail) == [label |-> label, text |-> text, str |-> str, tail |-> tail]

BlankLine == Line("", <<>>, "", <<>>)

\* fmt's %.0f of a span given in tenths: rounded to the nearest integer,
\* halves to the even one; a negative value that rounds to zero prints -0
FormatYears(tenths) ==
    LET q == tenths \div 10
        r == tenths % 10
        n == IF r < 5 THEN q
             ELSE IF r > 5 THEN q + 1
             ELSE IF q % 2 = 0 THEN q ELSE q + 1
    IN  IF n = 0 /\ tenths < 0 THEN "-0" ELSE FormatInt(n)

ConceptLines(concepts) ==
    [k \in 1..Len(concepts) |->
        Line("- ", concepts[k].Name,
             " (" \o FormatYears(GetSpanYears(concepts[k])) \o " years): ",
             concepts[k].Context)]

ProjectLines(projects) ==
    [k \in 1..Len(projects) |-> Line("- ", projects[k].Name, ": ", projects[k].Context)]

\* if len(taskCtx.RelatedConcepts) > 0 { header, lines, blank line }
ConceptBlock(concepts) ==
    IF Len(concepts) > 0
    THEN <<Line("Related concepts from diary history:", <<>>, "", <<>>)>>
         \o ConceptLines(concepts) \o <<BlankLine>>
    ELSE <<>>

\* mutant of ProjectBlock: the header is written for an empty list as well
ProjectBlock_mutAlways(projects) ==
    <<Line("Related projects:", <<>>, "", <<>>)>> \o ProjectLines(projects) \o <<BlankLine>>

\* if len(taskCtx.RelatedProjects) > 0 { header, lines, blank line }
ProjectBlock(projects) ==
    IF Len(projects) > 0
    THEN <<Line("Related projects:", <<>>, "", <<>>)>>
         \o ProjectLines(projects) \o <<BlankLine>>
    ELSE <<>>

\* the fixed instructions that end the prompt
Instructions ==
    << Line("Based on this context, decide ONE action for this task:", <<>>, "", <<>>),
       Line("1. \"skip\" - no action needed", <<>>, "", <<>>),
       Line("2. \"decompose\" - break into subtasks (if >14 days old and stale)", <<>>, "", <<>>),
       Line("3. \"ice-box\" - move to ice-box (if >30 days old and low historical alignment)", <<>>, "", <<>>),
       Line("4. \"reprioritize\" - change priority based on inertia score", <<>>, "", <<>>),
       Line("5. \"recontextualize\" - rewrite task to be more atomic/specific", <<>>, "", <<>>),
       BlankLine,
       Line("Respond with JSON only:", <<>>, "", <<>>),
       Line("{", <<>>, "", <<>>),
       Line("  \"action\": \"skip|decompose|ice-box|reprioritize|recontextualize\",", <<>>, "", <<>>),
       Line("  \"priority\": 1-4 (if reprioritizing),", <<>>, "", <<>>),
       Line("  \"new_content\": \"...\" (if recontextualizing),", <<>>, "", <<>>),
       Line("  \"subtasks\": [\"...\", \"...\"], (if decomposing),", <<>>, "", <<>>),
       Line("  \"reasoning\": \"brief explanation\",", <<>>, "", <<>>),
       Line("  \"inertia_score\": 0-10 (historical_weight * 0.4 + state_alignment * 0.3 + environment * 0.3)", <<>>, "", <<>>),
       Line("}", <<>>, "", <<>>) >>

BuildDecisionPrompt(taskCtx) ==
    << Line("Task: ", taskCtx.Task.Content, "", <<>>),
       Line("Created: ", <<>>, FormatInt(taskCtx.AgeDays) \o " days ago", <<>>),
       Line("Current priority: p", <<>>, FormatInt(taskCtx.Task.Priority), <<>>),
       BlankLine,
       Line("Current state:", <<>>, "", <<>>),
       Line("- Energy: ", taskCtx.State.Energy, "", <<>>),
       Line("- Mood: ", taskCtx.State.Mood, "", <<>>),
       Line("- Environment: ", taskCtx.State.Environment, "", <<>>),
       BlankLine >>
    \o ConceptBlock(taskCtx.RelatedConcepts)
    \o ProjectBlock(taskCtx.RelatedProjects)
    \o Instructions

\* CallAgentForDecision: prompt := BuildDecisionPrompt(taskCtx)
BuildPrompt ==
    /\ tctx.st = "done"
    /\ tctx' = [tctx EXCEPT !.st = "prompted", !.prompt = BuildDecisionPrompt(tctx.out)]
    /\ UNCHANGED <<pipelineVars, parseVars, filterVars, shell, mock, twin>>

NextCtx == Contextualize \/ BuildPrompt

SpecCtx == InitCtx /\ [][NextCtx]_vars

(***************************************************************************)
(* SpecShell: run-parallel.sh.  The script runs under set -e; every agent  *)
(* is a background job that exits on its own with status 0 or 1.           *)
(***************************************************************************)
\* jq -r '.results[] | select(.parentId == null or .parentId == "") | .id'
RECURSIVE JqLeafIds(_, _)
JqLeafIds(ts, i) ==
    IF i > Len(ts) THEN <<>>
    ELSE (IF ts[i].ParentID.nil \/ ts[i].ParentID.v = "" THEN <<ts[i].ID>> ELSE <<>>)
         \o JqLeafIds(ts, i + 1)

\* a background job: the task id it was spawned for, whether it still runs,
\* its exit status, and whether wait has returned it
Agent(id) == [id |-> id, st |-> "running", status |-> 0, waited |-> FALSE]

\* jobs -pr: the jobs that are running
RunningJobs == { i \in DOMAIN shell.agents : shell.agents[i].st = "running" }

\* the jobs wait -n can return: terminated and not yet returned by a wait
Waitable == { i \in DOMAIN shell.agents :
                shell.agents[i].st = "dead" /\ ~shell.agents[i].waited }

\* n tasks without a parent, t1 .. tn
RootTasks(n) == [k \in 1..n |-> Task("t" \o FormatInt(k), NilStr, "t")]

ShellFetched ==
    { RootTasks(n) : n \in 0..MaxShellTasks }
    \cup { <<Task("p1", NilStr, "t"), Task("c1", PtrStr("p1"), "t")>>,
           <<Task("p1", PtrStr(""), "t"), Task("c1", PtrStr("p1"), "t"),
             Task("l1", NilStr, "t")>> }

\* if [ ! -f "$CONTEXT_FILE" ]; then ... exit 1
ShCheckContext ==
    /\ shell.pc = "start"
    /\ \E exists \in BOOLEAN :
         shell' = [shell EXCEPT !.pc = IF exists THEN "fetch" ELSE "exit1"]
    /\ UNCHANGED <<pipelineVars, parseVars, filterVars, tctx, mock, twin>>

\* td task list --json --full > /tmp/all_tasks.json; a failure ends the
\* script (set -e)
ShFetch ==
    /\ shell.pc = "fetch"
    /\ \/ shell' = [shell EXCEPT !.pc = "fetchfailed"]
       \/ \E ts \in ShellFetched :
            shell' = [shell EXCEPT !.pc = "filter", !.fetched = ts]
    /\ UNCHANGED <<pipelineVars, parseVars, filterVars, tctx, mock, twin>>

\* the jq filter writes /tmp/leaf_task_ids.txt
ShFilter ==
    /\ shell.pc = "filter"
    /\ shell' = [shell EXCEPT !.pc = "loop", !.leafIds = JqLeafIds(shell.fetched, 1)]
    /\ UNCHANGED <<pipelineVars, parseVars, filterVars, tctx, mock, twin>>

\* if [ ${#PIDS[@]} -ge $MAX_PARALLEL ]
ThrottleNeeded(pids) == Cardinality(pids) >= shell.maxParallel

\* one pass of the while loop up to the test of PIDS: spawn the agent in
\* the background, PIDS+=($!), SPAWNED++
ShSpawn ==
    /\ shell.pc = "loop"
    /\ shell.spawned < Len(shell.leafIds)
    /\ LET new == Len(shell.agents) + 1
           pids == shell.pids \cup {new}
       IN  shell' = [shell EXCEPT
                       !.agents = Append(@, Agent(shell.leafIds[shell.spawned + 1])),
                       !.pids = pids,
                       !.spawned = @ + 1,
                       !.pc = IF ThrottleNeeded(pids) THEN "waitn" ELSE "loop"]
    /\ UNCHANGED <<pipelineVars, parseVars, filterVars, tctx, mock, twin>>

\* wait -n returns the status of one terminated job; a non-zero status ends
\* the script (set -e); otherwise PIDS=($(jobs -pr))
ShWaitN ==
    /\ shell.pc = "waitn"
    /\ \E i \in Waitable :
         LET after == [shell.agents EXCEPT ![i].waited = TRUE]
         IN  IF shell.agents[i].status # 0
             THEN shell' = [shell EXCEPT !.agents = after, !.pc = "aborted"]
             ELSE shell' = [shell EXCEPT !.agents = after, !.pids = RunningJobs,
                                         !.pc = "loop"]
    /\ UNCHANGED <<pipelineVars, parseVars, filterVars, tctx, mock, twin>>

\* the loop has read every id
ShLoopEnd ==
    /\ shell.pc = "loop"
    /\ shell.spawned = Len(shell.leafIds)
    /\ shell' = [shell EXCEPT !.pc = "waitall"]
    /\ UNCHANGED <<pipelineVars, parseVars, filterVars, tctx, mock, twin>>

\* wait: returns 0 once no job is running
ShWaitAll ==
    /\ shell.pc = "waitall"
    /\ RunningJobs = {}
    /\ shell' = [shell EXCEPT
                   !.agents = [i \in DOMAIN shell.agents |->
                                 [shell.agents[i] EXCEPT !.waited = TRUE]],
                   !.pc = "results"]
    /\ UNCHANGED <<pipelineVars, parseVars, filterVars, tctx, mock, twin>>

\* the results loop and the summary
ShSummary ==
    /\ shell.pc = "results"
    /\ shell' = [shell EXCEPT !.pc = "done", !.summary = TRUE]
    /\ UNCHANGED <<pipelineVars, parseVars, filterVars, tctx, mock, twin>>

\* an agent process exits; it does so whether or not the script still runs
AgentExit(i) ==
    /\ shell.agents[i].st = "running"
    /\ \E code \in {0, 1} :
         shell' = [shell EXCEPT !.agents[i].st = "dead", !.agents[i].status = code]
    /\ UNCHANGED <<pipelineVars, parseVars, filterVars, tctx, mock, twin>>

InitShell ==
    /\ \E k \in 1..MaxParallel : shell = [IdleShell EXCEPT !.pc = "start", !.maxParallel = k]
    /\ IdlePipeline
    /\ IdleParse
    /\ IdleFilter
    /\ tctx = IdleContextualize
    /\ mock = NoMock
    /\ twin = IdleTwin

NextShell ==
    \/ ShCheckContext
    \/ ShFetch
    \/ ShFilter
    \/ ShSpawn
    \/ ShWaitN
    \/ ShLoopEnd
    \/ ShWaitAll
    \/ ShSummary
    \/ \E i \in DOMAIN shell.agents : AgentExit(i)

SpecShell == InitShell /\ [][NextShell]_vars

(***************************************************************************)
(* Claims about ExecuteDecisionsParallel (SpecExecPar).                    *)
(***************************************************************************)
\* the number of commands a Decision calls for
ExpectedCount(d) ==
    CASE d.Action = "decompose" -> Len(d.Subtasks)
      [] d.Action = "reprioritize" -> IF d.Priority.nil THEN 0 ELSE 1
      [] d.Action = "recontextualize" -> IF d.NewContent.nil THEN 0 ELSE 1
      [] OTHER -> 0

SomeCommandFailed(i) == \E k \in 1..Len(execW[i].issued) : execW[i].issued[k].err

\* C14: a failing mutation command never aborts sibling work: a decompose
\* Decision still issues every later add command after an earlier one
\* failed, every other Decision is still executed to its end, and
\* ExecuteDecisionsParallel still returns normally.
C14_FailedCommandAbortsNothing ==
    /\ \A i \in DOMAIN execW :
           execW[i].st = "done" => Len(execW[i].issued) = ExpectedCount(decisions[i])
    /\ pc = "done" => \A i \in DOMAIN execW : execW[i].st = "done"
    /\ pc \in {"exec", "done"}
    /\ pc = "exec" => ENABLED NextExec

\* C14 witness: the first add command of a decompose Decision failed, its
\* second was issued all the same, the sibling Decision's only command
\* failed as well, and the call has returned
C14_Witness ==
    /\ pc = "done"
    /\ Len(decisions) = 2
    /\ decisions[1].Action = "decompose"
    /\ decisions[2].Action = "reprioritize"
    /\ Len(execW[1].issued) = 2
    /\ execW[1].issued[1].err
    /\ execW[1].issued[2].argv = <<"td", "task", "add", "s2", "--parent", "a">>
    /\ Len(execW[2].issued) = 1
    /\ SomeCommandFailed(2)

(***************************************************************************)
(* Claims about ContextualizeTask (SpecCtx).                               *)
(***************************************************************************)
\* two characters that differ at most in case
CaseEq(c, d) == c = d \/ {c, d} = {"j", "J"} \/ {c, d} = {"w", "W"}

\* a occurs in t at some offset, case ignored
OccursIn(a, t) ==
    \E off \in 0..Len(t) :
        /\ off + Len(a) <= Len(t)
        /\ \A k \in 1..Len(a) : CaseEq(a[k], t[off + k])

\* the space-separated words of a name: the stretches without a space that
\* reach from the start or a space to the end or a space; between two
\* adjacent spaces, before a leading and after a trailing space lies the
\* empty word, and the empty name is one empty word
Words(name) ==
    { SubSeq(name, i, j) : <<i, j>> \in
        { ij \in (1..(Len(name) + 1)) \X (0..Len(name)) :
            /\ ij[2] >= ij[1] - 1
            /\ \A k \in ij[1]..ij[2] : name[k] # " "
            /\ ij[1] = 1 \/ name[ij[1] - 1] = " "
            /\ ij[2] = Len(name) \/ name[ij[2] + 1] = " " } }

RawText(task) == task.Content \o <<" ">> \o task.Description

NamePositions(entities, text) ==
    { i \in 1..Len(entities) : OccursIn(entities[i].Name, text) }

WordPositions(entities, text) ==
    { i \in 1..Len(entities) : \E w \in Words(entities[i].Name) : OccursIn(w, text) }

Pick(entities, P) == [k \in 1..Cardinality(P) |-> entities[KthPosition(P, k)]]

\* C15: ContextualizeTask matches case-insensitively: a person or project is
\* related iff its whole name is a substring of the text content + " " +
\* description; a concept is related iff at least one of the space-separated
\* words of its name is a substring of that text.  Each matched entity
\* appears once, in gazetteer order.
C15_WholeNamesAndConceptWords ==
    tctx.st = "done" =>
        LET text == RawText(tctx.task)
            g == tctx.context.Gazetteer
        IN  /\ tctx.out.RelatedPeople = Pick(g.People, NamePositions(g.People, text))
            /\ tctx.out.RelatedProjects = Pick(g.Projects, NamePositions(g.Projects, text))
            /\ tctx.out.RelatedConcepts = Pick(g.Concepts, WordPositions(g.Concepts, text))

\* C15 witness: for the content "J", the person named "J w" is not related
\* while the concept named "J w" is, behind a concept that is not
C15_Witness ==
    /\ tctx.st = "done"
    /\ tctx.task.Content = <<"J">>
    /\ tctx.task.Description = <<>>
    /\ tctx.context.Gazetteer.People = <<Entity(NameJSpaceW, NumSpan(200))>>
    /\ tctx.out.RelatedPeople = <<>>
    /\ tctx.context.Gazetteer.Concepts =
          <<Entity(NameJW, NumSpan(4)), Entity(NameJSpaceW, NumSpan(100))>>
    /\ tctx.out.RelatedConcepts = <<Entity(NameJSpaceW, NumSpan(100))>>

\* the span value of an entity, non-numeric and absent spans counting as zero
SpanValue(e) == IF e.SpanYears.kind = "num" THEN e.SpanYears.n ELSE 0

MatchedSpans ==
    LET co == tctx.context.Gazetteer.Concepts
    IN  { SpanValue(co[i]) : i \in WordPositions(co, RawText(tctx.task)) }

Maximum(S) == CHOOSE x \in S : \A y \in S : y <= x

Elapsed == tctx.now - tctx.task.AddedAt

Abs(x) == IF x < 0 THEN 0 - x ELSE x

\* C17 as stated: AgeDays is the floor of (now - creation time) divided by
\* one day, for creation times both before and after now.
C17_AgeIsFloorOfDays ==
    tctx.st = "done" =>
        /\ tctx.out.AgeDays * 24 <= Elapsed
        /\ Elapsed < (tctx.out.AgeDays + 1) * 24

\* C17 amended: AgeDays is (now - creation time) divided by one day with
\* the fraction dropped, that is rounded toward zero: the floor for
\* creation times before now, the ceiling for creation times after now;
\* negative ages are not clamped to zero.
C17_AgeIsDaysRoundedTowardZero ==
    tctx.st = "done" =>
        /\ Abs(tctx.out.AgeDays) * 24 <= Abs(Elapsed)
        /\ Abs(Elapsed) < (Abs(tctx.out.AgeDays) + 1) * 24
        /\ Elapsed >= 0 => tctx.out.AgeDays >= 0
        /\ Elapsed <= 0 => tctx.out.AgeDays <= 0

\* C17 witness: a task created 36 hours after now has the age -1
C17_Witness ==
    /\ tctx.st = "done"
    /\ Elapsed = -36
    /\ tctx.out.AgeDays = -1

(***************************************************************************)
(* Claims about run-parallel.sh (SpecShell).                               *)
(***************************************************************************)
\* C18: run-parallel.sh processes exactly the leaf-node tasks: the ids
\* written to the leaf list and spawned as agents are those of the tasks
\* that are not the parent of any other task in the fetched list.
C18_ShellProcessesExactlyLeaves ==
    /\ shell.pc \in {"loop", "waitn", "waitall", "results", "done", "aborted"} =>
          shell.leafIds =
              [k \in 1..Cardinality(LeafPositions(shell.fetched)) |->
                  shell.fetched[KthPosition(LeafPositions(shell.fetched), k)].ID]
    /\ \A i \in DOMAIN shell.agents :
          \E j \in LeafPositions(shell.fetched) : shell.fetched[j].ID = shell.agents[i].id

\* C19: an agent process that exits with a non-zero status does not stop
\* the script from spawning an agent for every remaining leaf task, waiting
\* for all of them and printing the results summary.
C19_AgentFailureStopsNothing ==
    /\ shell.pc # "aborted"
    /\ shell.pc = "done" =>
          /\ shell.spawned = Len(shell.leafIds)
          /\ RunningJobs = {}
          /\ shell.summary

\* C20: for MAX_PARALLEL >= 1, the number of spawned agent processes
\* running at the same time never exceeds MAX_PARALLEL.
C20_RunningAgentsBounded ==
    shell.maxParallel >= 1 => Cardinality(RunningJobs) <= shell.maxParallel

(***************************************************************************)
(* Claims about the concurrency of ProcessTasksParallel (SpecParFair,      *)
(* SpecPar).                                                               *)
(***************************************************************************)
\* C21: for every concurrency limit K >= 1 and every finite task list,
\* ProcessTasksParallel eventually returns, provided every reasoning-engine
\* invocation eventually returns and scheduling is fair.
C21_EventuallyReturns ==
    maxConcurrency >= 1 => <>(pc = "returned")

\* under the same assumptions the call never blocks: it returns, or a
\* worker's panic has ended the process
NeverBlocksForever ==
    maxConcurrency >= 1 => <>(pc \in {"returned", "crashed"})

Holding == { i \in DOMAIN workers :
               workers[i].st \in {"spawned", "calling", "decided", "published", "panicked"} }
GaveBack == { i \in DOMAIN workers : workers[i].st \in {"released", "done"} }

\* C23: a slot is taken for a task before its reasoning-engine invocation
\* starts and is not released until that invocation has returned; the number
\* of held slots never exceeds K, each acquired slot is released exactly
\* once, and after the workers have finished no slot remains held.
C23_SlotHeldThroughInvocation ==
    /\ sem <= maxConcurrency
    /\ sem = Cardinality(Holding)
    /\ sem = nextIdx - Cardinality(GaveBack)
    /\ \A i \in DOMAIN workers :
          /\ workers[i].calls > 0 => i \in Holding \cup GaveBack
          /\ workers[i].st = "calling" => i \in Holding
          /\ i \in GaveBack => workers[i].calls = 1 /\ workers[i].decision # NoDecision
    /\ (\A i \in DOMAIN workers : workers[i].st = "done") => sem = 0

\* C23 witness: with K = 1 the first worker has finished and given its slot
\* back, and the second holds the slot during its invocation
C23_Witness ==
    /\ maxConcurrency = 1
    /\ Len(leafTasks) = 2
    /\ workers[1].st = "done"
    /\ workers[2].st = "calling"
    /\ sem = 1

\* Decisions sent on the result channel so far
PublishedCount == Len(results) + Len(decisions)

\* slots given back so far: those taken less those held
ReleasedCount == nextIdx - sem

PhaseRank ==
    CASE pc = "start" -> 0
      [] pc = "loaded" -> 1
      [] pc = "fetched" -> 2
      [] pc = "dispatch" -> 3
      [] pc = "collect" -> 4
      [] pc = "returned" -> 5
      [] pc = "exec" -> 6
      [] OTHER -> 7

\* C25: in a non-dry run no mutation command is issued before every leaf
\* task's reasoning-engine invocation has returned and all Decisions have
\* been collected; the phases run strictly in the order load context, fetch
\* tasks, filter leaves, request decisions, execute.
C25_PhasesInOrder ==
    /\ [](MutationsIssued # {} =>
            /\ ~dryRun
            /\ pc \in {"exec", "done"}
            /\ \A i \in DOMAIN workers : workers[i].st = "done" /\ workers[i].calls = 1
            /\ Len(workers) = Cardinality(LeafPositions(tasks))
            /\ Len(decisions) = Len(workers)
            /\ results = <<>>)
    /\ [](listCalls > 0 => ctxStatus = "ok")
    /\ []((leafTasks # <<>> \/ PhaseRank \in 3..6) => listStatus = "ok")
    /\ [](LLMCalls # {} => Len(leafTasks) = Cardinality(LeafPositions(tasks)))
    /\ [](execW # <<>> => pc \in {"exec", "done"} /\ Len(execW) = Len(leafTasks))
    /\ [][PhaseRank' \in {PhaseRank, PhaseRank + 1}
            \/ pc' \in {"fatal", "crashed", "deadlock"}
            \/ (pc = "returned" /\ dryRun /\ pc' = "done")]_vars

\* C25 witness: the first mutation command of a run over two leaf tasks is
\* issued with both Decisions collected
C25_Witness ==
    /\ pc = "exec"
    /\ Len(leafTasks) = 2
    /\ Len(decisions) = 2
    /\ Cardinality(MutationsIssued) = 1
    /\ \A i \in DOMAIN workers : workers[i].st = "done"

(***************************************************************************)
(* Claims about ExecuteDecisionsParallel (SpecExecParFair).                *)
(***************************************************************************)
\* C26: ExecuteDecisionsParallel runs ExecuteDecision exactly once for each
\* Decision of its input, with no admission bound (a goroutine is started
\* however many are running), and returns only after every one of them has
\* completed; it does return, provided every mutation command returns.
C26_EachDecisionExecutedOnce ==
    /\ [](Len(execW) = Len(decisions))
    /\ [](pc = "done" =>
            \A i \in DOMAIN execW :
                /\ execW[i].st = "done"
                /\ Len(execW[i].issued) = ExpectedCount(decisions[i]))
    /\ [][\A i \in DOMAIN execW :
            execW'[i].st # execW[i].st =>
                <<execW[i].st, execW'[i].st>> \in {<<"idle", "running">>, <<"running", "done">>}]_vars
    /\ []((pc = "exec" /\ execNext < Len(decisions)) => ENABLED ExecSpawn)
    /\ <>(pc = "done")

\* C26 witness: both Decisions of the input are being executed at once,
\* each with a command issued
C26_Witness ==
    /\ pc = "exec"
    /\ Len(decisions) = 2
    /\ \A i \in DOMAIN execW : execW[i].st = "running" /\ execW[i].issued # <<>>

(***************************************************************************)
(* Claims about the external calls of a run (Spec).                        *)
(***************************************************************************)
\* C27: each external call is attempted exactly once per run: one task-list
\* command in total, exactly one reasoning-engine invocation per leaf task
\* and none for a task that has children, and each mutation command at most
\* once, with no retry after a failure.
C27_SingleAttemptPerCall ==
    /\ listCalls <= 1
    /\ PhaseRank \in 2..6 => listCalls = 1
    /\ Len(workers) = Len(leafTasks)
    /\ leafTasks # <<>> =>
          leafTasks = [k \in 1..Cardinality(LeafPositions(tasks)) |->
                          tasks[KthPosition(LeafPositions(tasks), k)]]
    /\ \A i \in DOMAIN workers :
          /\ workers[i].calls <= 1
          /\ workers[i].st \in {"decided", "published", "released", "done", "panicked"}
                => workers[i].calls = 1
    /\ pc \in {"returned", "exec", "done"} =>
          \A i \in DOMAIN workers : workers[i].calls = 1
    /\ \A i \in DOMAIN execW :
          /\ Len(execW[i].issued) <= ExpectedCount(decisions[i])
          /\ \A k, l \in 1..Len(execW[i].issued) :
                k # l => execW[i].issued[k].argv # execW[i].issued[l].argv

\* C27 witness: a finished run over a parent, its child and a single task:
\* one list command, one invocation for each of the two leaves, the first
\* of which failed, and a failed mutation command that was not repeated
C27_Witness ==
    /\ pc = "done"
    /\ ~dryRun
    /\ Len(tasks) = 3
    /\ listCalls = 1
    /\ Len(workers) = 2
    /\ workers[1].outcome.err
    /\ \A i \in DOMAIN workers : workers[i].calls = 1
    /\ \E i \in DOMAIN execW :
          /\ Len(execW[i].issued) = 1
          /\ execW[i].issued[1].err
          /\ execW[i].st = "done"

(***************************************************************************)
(* Claims about shared state in the parallel phases (SpecMock).            *)
(***************************************************************************)
\* workers inside MockRunner.RunWithStdin: StdinSent written, the invocation
\* log read and not yet written back
InsideMock == { i \in DOMAIN workers : mock.installed /\ workers[i].st = "calling" }

\* C28: no shared mutable state is written by two concurrent tasks without
\* synchronization: with the MockRunner installed, no two workers are inside
\* its unlocked writes of the invocation log and the captured stdin at the
\* same time, and no write of one worker is lost to another's.
C28_NoUnsynchronizedSharedWrites ==
    mock.installed =>
        /\ Cardinality(InsideMock) <= 1
        /\ pc = "returned" => Len(mock.CalledCommands) = Len(leafTasks)

(***************************************************************************)
(* Claims about BuildDecisionPrompt (SpecCtx).                             *)
(***************************************************************************)
\* the prompt has a line made of this label and this free text
HasTextLine(label, text) ==
    \E k \in 1..Len(tctx.prompt) :
        tctx.prompt[k].label = label /\ tctx.prompt[k].text = text

\* the prompt has a line made of this label and this formatted value
HasValueLine(label, str) ==
    \E k \in 1..Len(tctx.prompt) :
        tctx.prompt[k].label = label /\ tctx.prompt[k].str = str

HasLabel(label) == \E k \in 1..Len(tctx.prompt) : tctx.prompt[k].label = label

\* some line of the prompt carries this free text
Renders(text) ==
    \E k \in 1..Len(tctx.prompt) : text \in {tctx.prompt[k].text, tctx.prompt[k].tail}

\* the decimal numeral of an integer between -99 and 99
Numeral(n) ==
    LET d == <<"0", "1", "2", "3", "4", "5", "6", "7", "8", "9">>
        a == IF n < 0 THEN 0 - n ELSE n
        digits == IF a < 10 THEN d[a + 1] ELSE d[(a \div 10) + 1] \o d[(a % 10) + 1]
    IN  IF n < 0 THEN "-" \o digits ELSE digits

ContentAgePriorityRendered ==
    /\ HasTextLine("Task: ", tctx.out.Task.Content)
    /\ HasValueLine("Created: ", Numeral(tctx.out.AgeDays) \o " days ago")
    /\ HasValueLine("Current priority: p", Numeral(tctx.out.Task.Priority))

BlocksFollowMatches ==
    /\ HasLabel("Related concepts from diary history:") <=> tctx.out.RelatedConcepts # <<>>
    /\ HasLabel("Related projects:") <=> tctx.out.RelatedProjects # <<>>

\* C29 as stated: BuildDecisionPrompt renders the task content, age, current
\* priority and all four state fields (energy, mood, environment,
\* work-volatility); the related-concepts block appears iff at least one
\* concept matched and the related-projects block iff at least one project
\* matched.
C29_PromptRendersFourStateFields ==
    tctx.st = "prompted" =>
        /\ ContentAgePriorityRendered
        /\ Renders(tctx.out.State.Energy)
        /\ Renders(tctx.out.State.Mood)
        /\ Renders(tctx.out.State.Environment)
        /\ Renders(tctx.out.State.WorkVolatility)
        /\ BlocksFollowMatches

\* C29 amended: BuildDecisionPrompt renders the task content, age, current
\* priority and three of the four state fields (energy, mood, environment;
\* work-volatility is not rendered); the related-concepts block appears iff
\* at least one concept matched and the related-projects block iff at least
\* one project matched.
C29_PromptRendersThreeStateFields ==
    tctx.st = "prompted" =>
        /\ ContentAgePriorityRendered
        /\ HasTextLine("- Energy: ", tctx.out.State.Energy)
        /\ HasTextLine("- Mood: ", tctx.out.State.Mood)
        /\ HasTextLine("- Environment: ", tctx.out.State.Environment)
        /\ ~Renders(tctx.out.State.WorkVolatility)
        /\ BlocksFollowMatches

\* C29 witness: a prompt with the concepts block and without the projects
\* block, for a task with matched concepts and no matched project
C29_Witness ==
    /\ tctx.st = "prompted"
    /\ tctx.context.Gazetteer.Projects # <<>>
    /\ tctx.out.RelatedProjects = <<>>
    /\ Len(tctx.out.RelatedConcepts) = 2
    /\ HasLabel("Related concepts from diary history:")
    /\ ~HasLabel("Related projects:")
    /\ HasTextLine("- Energy: ", <<"h">>)

(***************************************************************************)
(* Claims about the task a Decision and its mutations are bound to (Spec). *)
(***************************************************************************)
LeafIDs == { leafTasks[i].ID : i \in 1..Len(leafTasks) }

\* the task a mutation command acts on: `td task update ID ...` or
\* `td task add TEXT --parent ID`
Target(argv) == IF argv[3] = "update" THEN argv[4] ELSE argv[6]

\* the response a worker received carries an `id` member
NamesATask(i) ==
    /\ ~workers[i].outcome.err
    /\ \E k \in 1..Len(workers[i].outcome.out) : workers[i].outcome.out[k].key = "id"

\* C30: a Decision's TaskID is always the identifier of the task the
\* response was requested for, whatever the response contains, so a response
\* cannot redirect a mutation to another task: every mutation the engine
\* issues targets a leaf task of the run.
C30_MutationsTargetLeafTasksOfTheRun ==
    /\ \A i \in DOMAIN workers :
          workers[i].st \in {"decided", "published", "released", "done"} =>
              workers[i].decision.TaskID = leafTasks[i].ID
    /\ \A k \in 1..Len(results) : results[k].TaskID \in LeafIDs
    /\ \A k \in 1..Len(decisions) : decisions[k].TaskID \in LeafIDs
    /\ \A i \in DOMAIN execW : \A k \in 1..Len(execW[i].issued) :
          /\ Target(execW[i].issued[k].argv) = decisions[i].TaskID
          /\ Target(execW[i].issued[k].argv) \in LeafIDs
          /\ \A j \in 1..Len(tasks) :
                tasks[j].ParentID.nil \/ tasks[j].ParentID.v # Target(execW[i].issued[k].argv)

\* C30 witness: the response for leaf c1 named its parent p1, and the
\* mutation issued for it updates c1
C30_Witness ==
    /\ pc = "done"
    /\ ~dryRun
    /\ Len(tasks) = 2
    /\ leafTasks[1].ID = "c1"
    /\ NamesATask(1)
    /\ decisions[1].TaskID = "c1"
    /\ Len(execW[1].issued) = 1
    /\ execW[1].issued[1].argv = <<"td", "task", "update", "c1", "--priority", "p2">>

(***************************************************************************)
(* Claims about a concurrency limit of 0 (SpecParFair).                    *)
(***************************************************************************)
\* no goroutine has been started and no reasoning-engine invocation issued
NothingStarted ==
    /\ nextIdx = 0
    /\ sem = 0
    /\ \A i \in DOMAIN workers : workers[i].st = "idle" /\ workers[i].calls = 0
    /\ results = <<>>
    /\ decisions = <<>>

\* with an empty task list the call returns an empty Decision collection
EmptyListReturnsEmpty ==
    leafTasks = <<>> => <>[](pc = "returned" /\ decisions = <<>>)

\* C31 as stated: with concurrency limit 0 and a non-empty task list,
\* ProcessTasksParallel blocks forever on the first slot acquisition: it
\* issues no reasoning-engine invocation and never returns; with an empty
\* task list it returns an empty Decision collection for every limit >= 0.
C31_BlocksForeverOnFirstAcquisition ==
    /\ (maxConcurrency = 0 /\ leafTasks # <<>>) => [](pc = "dispatch" /\ NothingStarted)
    /\ EmptyListReturnsEmpty

\* C31 amended: with concurrency limit 0 and a non-empty task list,
\* ProcessTasksParallel never gets past the first slot acquisition: it
\* issues no reasoning-engine invocation and never returns; it stays blocked
\* or the Go runtime ends the process with its deadlock error.  With an
\* empty task list it returns an empty Decision collection for every limit
\* >= 0.
C31_NeverPassesFirstAcquisition ==
    /\ (maxConcurrency = 0 /\ leafTasks # <<>>) =>
           [](pc \in {"dispatch", "deadlock"} /\ NothingStarted)
    /\ EmptyListReturnsEmpty

\* C31 witness: limit 0, two tasks, the process ended by the runtime with
\* no goroutine started
C31_Witness ==
    /\ maxConcurrency = 0
    /\ Len(leafTasks) = 2
    /\ pc = "deadlock"
    /\ NothingStarted

(***************************************************************************)
(* Claims about the frame of ExecuteDecision (SpecExec).                   *)
(***************************************************************************)
\* the kind of mutation a command performs
MutationKind(argv) ==
    CASE argv[3] = "add" -> "subtask"
      [] argv[3] = "update" /\ argv[5] = "--priority" -> "priority"
      [] argv[3] = "update" /\ argv[5] = "--content" -> "content"
      [] OTHER -> "other"

\* the only kind of mutation an action may issue
KindOf(action) ==
    CASE action = "reprioritize" -> "priority"
      [] action = "recontextualize" -> "content"
      [] action = "decompose" -> "subtask"
      [] OTHER -> "none"

KindsIssued(i) == { MutationKind(execW[i].issued[k].argv) : k \in 1..Len(execW[i].issued) }

\* C32: ExecuteDecision issues no command for a Decision whose action is not
\* one of the five tags (the empty action included), and it reads only the
\* field that belongs to the action: the priority only under reprioritize,
\* the new content only under recontextualize, the subtasks only under
\* decompose, so at most one kind of mutation is issued per Decision.
C32_OnlyTheActionsOwnFieldIsUsed ==
    \A i \in DOMAIN execW :
        /\ decisions[i].Action \notin ActionTags => execW[i].issued = <<>>
        /\ KindsIssued(i) \subseteq {KindOf(decisions[i].Action)}
        /\ Cardinality(KindsIssued(i)) <= 1
        /\ execW[i].st = "done" =>
              Len(execW[i].issued) =
                  CASE decisions[i].Action = "reprioritize" ->
                           IF decisions[i].Priority.nil THEN 0 ELSE 1
                    [] decisions[i].Action = "recontextualize" ->
                           IF decisions[i].NewContent.nil THEN 0 ELSE 1
                    [] decisions[i].Action = "decompose" -> Len(decisions[i].Subtasks)
                    [] OTHER -> 0

\* C32 witness: a Decision with the empty action and all three fields
\* present has been executed without a command
C32_Witness ==
    /\ pc = "done"
    /\ decisions[1].Action = ""
    /\ decisions[1].Priority = PtrInt(2)
    /\ decisions[1].NewContent = PtrStr("c")
    /\ decisions[1].Subtasks = <<"s1", "s2">>
    /\ execW[1].st = "done"
    /\ execW[1].issued = <<>>

(***************************************************************************)
(* Claims about the edge cases of FilterLeafNodes (SpecFilter).            *)
(***************************************************************************)
\* some task of the list has this identifier
NamesATaskOf(ts, id) == \E i \in 1..Len(ts) : ts[i].ID = id

\* some task of the list names this identifier as its parent
HasChildIn(ts, id) ==
    \E j \in 1..Len(ts) : ~ts[j].ParentID.nil /\ ts[j].ParentID.v = id

\* sub is obtained from ts by deleting elements
IsSubsequence(sub, ts) ==
    \E f \in [1..Len(sub) -> 1..Len(ts)] :
        /\ \A k \in 1..Len(sub) : sub[k] = ts[f[k]]
        /\ \A k \in 1..(Len(sub) - 1) : f[k] < f[k + 1]

\* C33: in FilterLeafNodes a task whose parent identifier equals its own
\* identifier is excluded, a parent identifier that names no task in the
\* list excludes nothing, and the result is always a subsequence of the
\* input in which every fetched task with no child in the list is kept.
C33_SelfParentExcludedDanglingParentHarmless ==
    fLeaves.done =>
        /\ \A i \in 1..Len(fTasks) :
              (~fTasks[i].ParentID.nil /\ fTasks[i].ParentID.v = fTasks[i].ID) =>
                  \A k \in 1..Len(fLeaves.out) : fLeaves.out[k].ID # fTasks[i].ID
        /\ (\A j \in 1..Len(fTasks) :
                fTasks[j].ParentID.nil \/ ~NamesATaskOf(fTasks, fTasks[j].ParentID.v))
              => fLeaves.out = fTasks
        /\ Len(fTasks) - Len(fLeaves.out) =
              Cardinality({ i \in 1..Len(fTasks) : HasChildIn(fTasks, fTasks[i].ID) })
        /\ IsSubsequence(fLeaves.out, fTasks)
        /\ \A i \in 1..Len(fTasks) :
              ~HasChildIn(fTasks, fTasks[i].ID) =>
                  \E k \in 1..Len(fLeaves.out) : fLeaves.out[k] = fTasks[i]

\* C33 witness: a is its own parent and is dropped, b has no child and stays
C33_Witness ==
    /\ fLeaves.done
    /\ fTasks = <<Task("a", PtrStr("a"), "t1"), Task("b", NilStr, "t1")>>
    /\ fLeaves.out = <<Task("b", NilStr, "t1")>>

\* a list whose only parent identifier names no task is returned whole
DanglingParentKeepsAll ==
    /\ fLeaves.done
    /\ fTasks = <<Task("b", PtrStr("a"), "t1"), Task("b", NilStr, "t2")>>
    /\ fLeaves.out = fTasks

(***************************************************************************)
(* The pipeline of main.go (package main), function by function.           *)
(***************************************************************************)
filterLeafNodes(ts) ==
    LET parentIDs == { ts[j].ParentID.v : j \in { k \in 1..Len(ts) : ~ts[k].ParentID.nil } }
    IN  SelectSeq(ts, LAMBDA task : task.ID \notin parentIDs)

contextualizeTask(task, context, now) ==
    LET taskText == ToLower(task.Content \o <<" ">> \o task.Description)
        relatedPeople == MatchNames(taskText, context.Gazetteer.People, 1)
        relatedProjects == MatchNames(taskText, context.Gazetteer.Projects, 1)
        relatedConcepts == MatchKeywords(taskText, context.Gazetteer.Concepts, 1)
        ageDays == IntOfQuotient(now - task.AddedAt, HoursPerDay)
        maxSpan == MaxSpan(relatedConcepts, 1, 0)
    IN  [Task |-> task, RelatedPeople |-> relatedPeople,
         RelatedProjects |-> relatedProjects, RelatedConcepts |-> relatedConcepts,
         State |-> context.State, AgeDays |-> ageDays, HistoricalWeight |-> maxSpan]

\* the raw string literal that ends the prompt of main.go
mainInstructions ==
    << Line("Based on this context, decide ONE action for this task:", <<>>, "", <<>>),
       Line("1. \"skip\" - no action needed", <<>>, "", <<>>),
       Line("2. \"decompose\" - break into subtasks (if >14 days old and stale)", <<>>, "", <<>>),
       Line("3. \"ice-box\" - move to ice-box (if >30 days old and low historical alignment)", <<>>, "", <<>>),
       Line("4. \"reprioritize\" - change priority based on inertia score", <<>>, "", <<>>),
       Line("5. \"recontextualize\" - rewrite task to be more atomic/specific", <<>>, "", <<>>),
       BlankLine,
       Line("Respond with JSON only:", <<>>, "", <<>>),
       Line("{", <<>>, "", <<>>),
       Line("  \"action\": \"skip|decompose|ice-box|reprioritize|recontextualize\",", <<>>, "", <<>>),
       Line("  \"priority\": 1-4 (if reprioritizing),", <<>>, "", <<>>),
       Line("  \"new_content\": \"...\" (if recontextualizing),", <<>>, "", <<>>),
       Line("  \"subtasks\": [\"...\", \"...\"] (if decomposing),", <<>>, "", <<>>),
       Line("  \"reasoning\": \"brief explanation\",", <<>>, "", <<>>),
       Line("  \"inertia_score\": 0-10 (historical_weight * 0.4 + state_alignment * 0.3 + environment * 0.3)", <<>>, "", <<>>),
       Line("}", <<>>, "", <<>>) >>

buildDecisionPrompt(taskCtx) ==
    << Line("Task: ", taskCtx.Task.Content, "", <<>>),
       Line("Created: ", <<>>, FormatInt(taskCtx.AgeDays) \o " days ago", <<>>),
       Line("Current priority: p", <<>>, FormatInt(taskCtx.Task.Priority), <<>>),
       BlankLine,
       Line("Current state:", <<>>, "", <<>>),
       Line("- Energy: ", taskCtx.State.Energy, "", <<>>),
       Line("- Mood: ", taskCtx.State.Mood, "", <<>>),
       Line("- Environment: ", taskCtx.State.Environment, "", <<>>),
       BlankLine >>
    \o (IF Len(taskCtx.RelatedConcepts) > 0
        THEN <<Line("Related concepts from diary history:", <<>>, "", <<>>)>>
             \o ConceptLines(taskCtx.RelatedConcepts) \o <<BlankLine>>
        ELSE <<>>)
    \o (IF Len(taskCtx.RelatedProjects) > 0
        THEN <<Line("Related projects:", <<>>, "", <<>>)>>
             \o ProjectLines(taskCtx.RelatedProjects) \o <<BlankLine>>
        ELSE <<>>)
    \o mainInstructions

parseDecisionResponse(resp, taskID) ==
    LET start == Index(resp, LBrace)
        end == LastIndex(resp, RBrace)
    IN  IF start = -1 \/ end = -1
        THEN Returned(Decision(taskID, "skip", NilInt, NilStr, <<>>,
                               "Failed to parse LLM response", 0))
        ELSE IF start > end + 1
        THEN Panicked
        ELSE LET jsonStr == SubSeq(resp, start + 1, end + 1)
                 u == Unmarshal(jsonStr)
             IN  IF u.err
                 THEN Returned(Decision(taskID, "skip", NilInt, NilStr, <<>>,
                                        "JSON parse error: " \o "invalid JSON", 0))
                 ELSE Returned(Decision(taskID, u.val.Action, u.val.Priority,
                                        u.val.NewContent, u.val.Subtasks,
                                        u.val.Reasoning, u.val.InertiaScore))

callAgentForDecision(taskCtx, outcome) ==
    IF outcome.err
    THEN Returned(Decision(taskCtx.Task.ID, "skip", NilInt, NilStr, <<>>,
                           "LLM call failed: " \o "exit status 1", 0))
    ELSE parseDecisionResponse(outcome.out, taskCtx.Task.ID)

executeDecision(d) ==
    IF d.Action = "skip" THEN <<>>
    ELSE IF d.Action = "reprioritize" THEN
        (IF ~d.Priority.nil
         THEN <<(<<"td", "task", "update", d.TaskID, "--priority",
                   "p" \o FormatInt(d.Priority.v)>>)>>
         ELSE <<>>)
    ELSE IF d.Action = "recontextualize" THEN
        (IF ~d.NewContent.nil
         THEN <<(<<"td", "task", "update", d.TaskID, "--content", d.NewContent.v>>)>>
         ELSE <<>>)
    ELSE IF d.Action = "decompose" THEN
        [k \in 1..Len(d.Subtasks) |->
            <<"td", "task", "add", d.Subtasks[k], "--parent", d.TaskID>>]
    ELSE <<>>

(***************************************************************************)
(* SpecTwin: both copies are given the same tasks, context, limit and      *)
(* engine responses, and take the same steps in the same order.            *)
(***************************************************************************)
TwinTask(id, parentID, content) ==
    [ID |-> id, ParentID |-> parentID, Content |-> content, Description |-> <<>>,
     Priority |-> 1, AddedAt |-> 0]

TwinFetched ==
    { <<>>,
      <<TwinTask("l1", NilStr, NameJW)>>,
      <<TwinTask("p1", NilStr, NameJ), TwinTask("c1", PtrStr("p1"), NameJW)>>,
      <<TwinTask("c1", PtrStr("c1"), NameJ), TwinTask("l1", NilStr, NameJW),
        TwinTask("l2", PtrStr("zz"), <<"w">>)>> }

TwinContexts ==
    { InertiaContext(<<>>, <<>>, <<>>),
      InertiaContext(<<Entity(NameJ, NumSpan(200))>>,
                     <<Entity(NameJW, NumSpan(300))>>,
                     <<Entity(NameJSpaceW, NumSpan(100)), Entity(NameJW, NumSpan(4))>>) }

InitTwin ==
    /\ \E ts \in TwinFetched, c \in TwinContexts, k \in 0..MaxK :
          twin = [IdleTwin EXCEPT !.st = "ready", !.tasks = ts, !.context = c,
                                  !.now = 30, !.limit = k]
    /\ IdlePipeline
    /\ IdleParse
    /\ IdleFilter
    /\ tctx = IdleContextualize
    /\ shell = IdleShell
    /\ mock = NoMock

\* both copies filter the fetched list
TwinFilter ==
    /\ twin.st = "ready"
    /\ twin' = [twin EXCEPT !.st = "filtered",
                            !.engine.leaves = FilterLeafNodes(twin.tasks),
                            !.main.leaves = filterLeafNodes(twin.tasks)]
    /\ UNCHANGED <<pipelineVars, parseVars, filterVars, tctx, shell, mock>>

\* what one copy does for one leaf task and one outcome of RunWithStdin
SideAfter(side, prompt, r) ==
    [side EXCEPT !.stdin = Append(@, prompt),
                 !.invocations = Append(@, <<"openclaw", "chat">>),
                 !.decisions = IF r.panic THEN @ ELSE Append(@, r.decision),
                 !.panic = r.panic]

\* one worker of each copy runs: the same leaf position, the same outcome;
\* the workers finish in any order, and none starts with a limit of 0
TwinProcess(i) ==
    /\ twin.st = "filtered"
    /\ twin.limit >= 1
    /\ i \notin twin.processed
    /\ i <= Len(twin.engine.leaves)
    /\ i <= Len(twin.main.leaves)
    /\ \E o \in Outcomes :
         LET eCtx == ContextualizeTask(twin.engine.leaves[i], twin.context, twin.now)
             mCtx == contextualizeTask(twin.main.leaves[i], twin.context, twin.now)
             eRes == CallAgentForDecision(eCtx, o)
             mRes == callAgentForDecision(mCtx, o)
         IN  twin' = [twin EXCEPT
                        !.st = IF eRes.panic \/ mRes.panic THEN "crashed" ELSE @,
                        !.processed = @ \cup {i},
                        !.engine = SideAfter(@, BuildDecisionPrompt(eCtx), eRes),
                        !.main = SideAfter(@, buildDecisionPrompt(mCtx), mRes)]
    /\ UNCHANGED <<pipelineVars, parseVars, filterVars, tctx, shell, mock>>

\* both calls return their Decisions
TwinCollect ==
    /\ twin.st = "filtered"
    /\ twin.limit >= 1 \/ twin.engine.leaves = <<>>
    /\ twin.processed = 1..Len(twin.engine.leaves)
    /\ twin' = [twin EXCEPT !.st = "collected"]
    /\ UNCHANGED <<pipelineVars, parseVars, filterVars, tctx, shell, mock>>

RECURSIVE CommandsOf(_, _)
CommandsOf(ds, k) ==
    IF k > Len(ds) THEN <<>> ELSE <<ExecuteDecision(ds[k])>> \o CommandsOf(ds, k + 1)

RECURSIVE commandsOf(_, _)
commandsOf(ds, k) ==
    IF k > Len(ds) THEN <<>> ELSE <<executeDecision(ds[k])>> \o commandsOf(ds, k + 1)

\* both copies execute their Decisions; commands[k] are those of Decision k
TwinExecute ==
    /\ twin.st = "collected"
    /\ twin' = [twin EXCEPT !.st = "done",
                            !.engine.commands = CommandsOf(twin.engine.decisions, 1),
                            !.main.commands = commandsOf(twin.main.decisions, 1)]
    /\ UNCHANGED <<pipelineVars, parseVars, filterVars, tctx, shell, mock>>

NextTwin ==
    \/ TwinFilter
    \/ \E i \in 1..MaxFilterTasks : TwinProcess(i)
    \/ TwinCollect
    \/ TwinExecute

SpecTwin == InitTwin /\ [][NextTwin]_vars

(***************************************************************************)
(* Claims about the two copies of the pipeline (SpecTwin).                 *)
(***************************************************************************)
\* C34: the exported pipeline of the engine package and the unexported
\* pipeline of main.go are step-for-step equivalent: for the same tasks,
\* context, limit and external responses they issue the same external
\* commands (name, arguments and the text piped to them) and produce the
\* same Decisions.
C34_PipelinesAreEquivalent ==
    twin.engine = twin.main

\* the copies agree on everything but the text they send to the reasoning
\* engine: same leaves, same argv of every invocation, same Decisions, same
\* panics, same mutation commands
CopiesAgreeUpToPromptText ==
    /\ twin.engine.leaves = twin.main.leaves
    /\ twin.engine.invocations = twin.main.invocations
    /\ twin.engine.decisions = twin.main.decisions
    /\ twin.engine.panic = twin.main.panic
    /\ twin.engine.commands = twin.main.commands
    /\ Len(twin.engine.stdin) = Len(twin.main.stdin)

\* the prompts of the two copies differ in one line, the one on subtasks
PromptsDifferInSubtasksLineOnly ==
    \A n \in 1..Len(twin.engine.stdin) :
        LET e == twin.engine.stdin[n]
            m == twin.main.stdin[n]
        IN  /\ Len(e) = Len(m)
            /\ \E k \in 1..Len(e) :
                  /\ e[k].label = "  \"subtasks\": [\"...\", \"...\"], (if decomposing),"
                  /\ m[k].label = "  \"subtasks\": [\"...\", \"...\"] (if decomposing),"
                  /\ \A j \in (1..Len(e)) \ {k} : e[j] = m[j]

\* both copies have run to the end over two leaves, and mutations were issued
BothCopiesRan ==
    /\ twin.st = "done"
    /\ Len(twin.engine.leaves) = 2
    /\ Len(twin.engine.decisions) = 2
    /\ \E k \in 1..2 : twin.engine.commands[k] # <<>>

====
